---- MODULE Spec2Model ----
(***************************************************************************)
(* News clipper: HTML cleaning, main-content extraction, content scoring   *)
(* and the site adapters' parse_article, modelled from                     *)
(* src/src/models/web_article.rs and src/src/models/sites/*.rs.            *)
(*                                                                         *)
(* An HTML string is a sequence of tokens: opening tags, closing tags,     *)
(* text runs, single newlines and single spaces.  An opening tag carries   *)
(* the flag raw: TRUE when the source spells the tag in a way the          *)
(* serializer does not reproduce (upper-case tag name, single-quoted or    *)
(* unquoted attribute value).  Parsing forgets the spelling; serializing   *)
(* an element always writes the canonical spelling.                        *)
(***************************************************************************)
EXTENDS Integers, Sequences, FiniteSets, TLC

VARIABLES
    html,       \* the input string of the operation (token sequence)
    extra,      \* additional_selectors / site_specific_exclude_selectors
    primary,    \* primary_selector of extract_content_with_fallback
    site,       \* the adapter whose parse_article runs ("" when none)
    pc,         \* position of the caller
    op,         \* the last operation applied
    out,        \* the last operation's result
    prev,       \* the result of the operation before the last one
    heuristic,  \* TRUE once extract_main_content has been entered
    via,        \* the phase that produced an extraction result
    elem,       \* the element handed to calculate_content_score (0: none)
    req,        \* what the adapter's url and HTTP request do: "ok", "bad_url", "send_error"
    feed,       \* the input of WebArticle::new or the body get_articles receives
    articles,   \* the articles collected by the caller
    queue,      \* the sites the caller has still to process
    failures,   \* the failures the caller has reported
    extracted,  \* the article URLs whose parse_article has returned Ok
    HTTP_CLIENT, \* the static OnceLock that holds the shared request::Client
    INIT,       \* the static Once of init_logger
    subscriber, \* the global default tracing subscriber
    tasks,      \* the concurrent callers of request or init_logger
    closures    \* the executions of an initialization closure, in order

vars ==
    <<html, extra, primary, site, pc, op, out, prev, heuristic, via, elem, req,
      feed, articles, queue, failures, extracted,
      HTTP_CLIENT, INIT, subscriber, tasks, closures>>

\* the process-wide statics and their callers
statics == <<HTTP_CLIENT, INIT, subscriber, tasks, closures>>

\* OnceLock::new(), Once::new(), no subscriber installed, no caller yet
ProcessStart ==
    /\ HTTP_CLIENT = [state |-> "incomplete", value |-> <<>>]
    /\ INIT = "incomplete"
    /\ subscriber = <<>>
    /\ tasks = <<>>
    /\ closures = <<>>

(***************************************************************************)
(* Tokens                                                                  *)
(***************************************************************************)
Open(tag, class, id, attrs, raw) ==
    [k |-> "open", tag |-> tag, class |-> class, id |-> id, attrs |-> attrs, raw |-> raw]

Close(tag) == [k |-> "close", tag |-> tag]

\* a run of n characters of w bytes each, named s
Text(s, n, w) == [k |-> "text", s |-> s, n |-> n, w |-> w]

NL == [k |-> "nl"]

SP == [k |-> "sp"]

\* <tag>children</tag> in canonical spelling
El(tag, children) == <<Open(tag, <<>>, "", <<>>, FALSE)>> \o children \o <<Close(tag)>>

\* <tag class="..." id="...">children</tag> in canonical spelling
ElA(tag, class, id, children) ==
    <<Open(tag, class, id, <<>>, FALSE)>> \o children \o <<Close(tag)>>

\* the same element spelled in a non-canonical way, e.g. <NAV class='x'>
ElRaw(tag, class, id, children) ==
    <<Open(tag, class, id, <<>>, TRUE)>> \o children \o <<Close(tag)>>

(***************************************************************************)
(* Strings                                                                 *)
(***************************************************************************)
StrContains(s, sub) ==
    \E i \in 1..(Len(s) - Len(sub) + 1) : SubSeq(s, i, i + Len(sub) - 1) = sub

UpperChars == "ABCDEFGHIJKLMNOPQRSTUVWXYZ"

LowerChars == "abcdefghijklmnopqrstuvwxyz"

LowerChar(c) ==
    IF \E i \in 1..Len(UpperChars) : SubSeq(UpperChars, i, i) = c
    THEN LET i == CHOOSE j \in 1..Len(UpperChars) : SubSeq(UpperChars, j, j) = c
         IN  SubSeq(LowerChars, i, i)
    ELSE c

RECURSIVE ToLowercase(_)
ToLowercase(s) ==
    IF Len(s) = 0 THEN s
    ELSE LowerChar(SubSeq(s, 1, 1)) \o ToLowercase(SubSeq(s, 2, Len(s)))

\* the class attribute's value: the class names joined by one space
RECURSIVE JoinClass(_)
JoinClass(class) ==
    IF Len(class) = 0 THEN ""
    ELSE IF Len(class) = 1 THEN class[1]
    ELSE class[1] \o " " \o JoinClass(Tail(class))

Range(f) == {f[i] : i \in DOMAIN f}

(***************************************************************************)
(* Parsing and serializing                                                 *)
(***************************************************************************)
\* the spelling the serializer writes
Canon(tok) == IF tok.k = "open" THEN [tok EXCEPT !.raw = FALSE] ELSE tok

\* the least member of a non-empty set of numbers
Least(S) == CHOOSE x \in S : \A y \in S : x <= y

\* nesting depth behind each token: opening tags less closing tags so far
NestDepth(h) ==
    [j \in 1..Len(h) |->
        Cardinality({k \in 1..j : h[k].k = "open"})
        - Cardinality({k \in 1..j : h[k].k = "close"})] \o <<>>

\* index of the closing tag that ends the element opened at i: the first
\* one behind it that brings the depth back (the last token when none does)
ScanClose(h, depth, i) ==
    LET closers == {j \in (i + 1)..Len(h) : h[j].k = "close" /\ depth[j] = depth[i] - 1}
    IN  IF closers = {} THEN Len(h) ELSE Least(closers)

IsRootTag(tok) == tok.k \in {"open", "close"} /\ tok.tag \in {"html", "head", "body"}

IsNotRootTag(tok) == ~IsRootTag(tok)

\* scraper::Html::parse_document: the element tree, as the canonical tokens
\* and, for every opening tag, the index of its closing tag.  The parser
\* always builds <html><head></head><body>...</body></html>, whether the
\* source writes those tags or not.
ParseDocument(h) ==
    LET inner == SelectSeq(h, IsNotRootTag)
        all == <<Open("html", <<>>, "", <<>>, FALSE), Open("head", <<>>, "", <<>>, FALSE),
                 Close("head"), Open("body", <<>>, "", <<>>, FALSE)>>
               \o inner \o <<Close("body"), Close("html")>>
        depth == NestDepth(all)
    IN  [tok |-> [i \in 1..Len(all) |-> Canon(all[i])] \o <<>>,
         end |-> [i \in 1..Len(all) |->
                    IF all[i].k = "open" THEN ScanClose(all, depth, i) ELSE 0] \o <<>>]

Elements(doc) == {i \in DOMAIN doc.tok : doc.tok[i].k = "open"}

Ancestors(doc, i) == {a \in Elements(doc) : a < i /\ doc.end[a] > i}

Descendants(doc, i) == {d \in Elements(doc) : i < d /\ d < doc.end[i]}

\* ElementRef::html(): the element serialized
ElemHtml(doc, i) == [j \in 1..(doc.end[i] - i + 1) |-> doc.tok[i + j - 1]]

RECURSIVE AttrsLen(_)
AttrsLen(attrs) ==
    IF Len(attrs) = 0 THEN 0
    ELSE 1 + Len(attrs[1][1]) + 3 + Len(attrs[1][2]) + AttrsLen(Tail(attrs))

\* str::len of a token: its UTF-8 byte count
TokBytes(tok) ==
    CASE tok.k = "open" ->
           1 + Len(tok.tag)
             + (IF Len(tok.class) = 0 THEN 0 ELSE 9 + Len(JoinClass(tok.class)))
             + (IF tok.id = "" THEN 0 ELSE 6 + Len(tok.id))
             + AttrsLen(tok.attrs) + 1
      [] tok.k = "close" -> 3 + Len(tok.tag)
      [] tok.k = "text" -> tok.n * tok.w
      [] OTHER -> 1

\* number of characters of a token
TokChars(tok) == IF tok.k = "text" THEN tok.n ELSE TokBytes(tok)

\* summed over the tokens, halving the string
RECURSIVE StrBytes(_)
StrBytes(s) ==
    IF Len(s) = 0 THEN 0
    ELSE IF Len(s) = 1 THEN TokBytes(s[1])
    ELSE LET m == Len(s) \div 2
         IN  StrBytes(SubSeq(s, 1, m)) + StrBytes(SubSeq(s, m + 1, Len(s)))

\* the characters of a string, summed over the tokens, halving the string
RECURSIVE StrChars(_)
StrChars(s) ==
    IF Len(s) = 0 THEN 0
    ELSE IF Len(s) = 1 THEN TokChars(s[1])
    ELSE LET m == Len(s) \div 2
         IN  StrChars(SubSeq(s, 1, m)) + StrChars(SubSeq(s, m + 1, Len(s)))

IsTextTok(tok) == tok.k \in {"text", "nl", "sp"}

\* ElementRef::text().collect(): the text nodes below the element, in order
ElemText(doc, i) == SelectSeq(ElemHtml(doc, i), IsTextTok)

(***************************************************************************)
(* Selectors                                                               *)
(*                                                                         *)
(* A selector is what Selector::parse returns: ok = FALSE for a string     *)
(* that is no selector, else a list of alternatives (the comma), each a    *)
(* chain of compound selectors joined by the descendant combinator.        *)
(***************************************************************************)
Cmp(tag, classes, id) ==
    [tag |-> tag, classes |-> classes, id |-> id, attrs |-> {}, empty |-> FALSE]

AttrTest(name, how, val) == [name |-> name, how |-> how, val |-> val]

Sel(alts) == [ok |-> TRUE, alts |-> alts]

\* "nav"
TagSel(t) == Sel(<<<<Cmp(t, {}, "")>>>>)

\* ".ad"
ClassSel(c) == Sel(<<<<Cmp("", {c}, "")>>>>)

\* "#comments"
IdSel(i) == Sel(<<<<Cmp("", {}, i)>>>>)

\* "[role='navigation']", "[class*='ad-']", "[hidden]"
AttrSel(name, how, val) ==
    Sel(<<<<[Cmp("", {}, "") EXCEPT !.attrs = {AttrTest(name, how, val)}]>>>>)

\* "div:empty"
EmptySel(t) == Sel(<<<<[Cmp(t, {}, "") EXCEPT !.empty = TRUE]>>>>)

\* a string Selector::parse rejects
InvalidSel == [ok |-> FALSE, alts |-> <<>>]

RECURSIVE AttrLookup(_, _)
AttrLookup(attrs, name) ==
    IF Len(attrs) = 0 THEN [some |-> FALSE, v |-> ""]
    ELSE IF attrs[1][1] = name THEN [some |-> TRUE, v |-> attrs[1][2]]
    ELSE AttrLookup(Tail(attrs), name)

\* Element::attr(name)
Attr(tok, name) ==
    CASE name = "class" -> [some |-> Len(tok.class) > 0, v |-> JoinClass(tok.class)]
      [] name = "id" -> [some |-> tok.id # "", v |-> tok.id]
      [] OTHER -> AttrLookup(tok.attrs, name)

MatchAttr(tok, t) ==
    LET a == Attr(tok, t.name)
    IN  /\ a.some
        /\ CASE t.how = "eq" -> a.v = t.val
             [] t.how = "sub" -> t.val # "" /\ StrContains(a.v, t.val)
             [] OTHER -> TRUE

MatchCompound(doc, i, c) ==
    LET tok == doc.tok[i]
    IN  /\ c.tag = "" \/ tok.tag = c.tag
        /\ c.classes \subseteq Range(tok.class)
        /\ c.id = "" \/ tok.id = c.id
        /\ \A t \in c.attrs : MatchAttr(tok, t)
        /\ c.empty => doc.end[i] = i + 1

\* the chain's last compound matches i, the others match ancestors, outwards
RECURSIVE MatchChain(_, _, _, _)
MatchChain(doc, i, chain, n) ==
    /\ MatchCompound(doc, i, chain[n])
    /\ \/ n = 1
       \/ \E a \in Ancestors(doc, i) : MatchChain(doc, a, chain, n - 1)

Matches(doc, i, sel) ==
    \E x \in DOMAIN sel.alts : MatchChain(doc, i, sel.alts[x], Len(sel.alts[x]))

\* Html::select / ElementRef::select below element root (0: the document):
\* the matching elements in document order
Select(doc, root, sel) ==
    LET inScope(i) == root = 0 \/ (root < i /\ i < doc.end[root])
        hit(i) == doc.tok[i].k = "open" /\ inScope(i) /\ Matches(doc, i, sel)
    IN  SelectSeq([i \in DOMAIN doc.tok |-> i], hit)

(***************************************************************************)
(* clean_html / clean_html_with_selectors                                  *)
(***************************************************************************)
EXCLUDE_SELECTORS ==
    << TagSel("nav"), TagSel("header"), TagSel("footer"),
       TagSel("aside"),
       AttrSel("role", "eq", "navigation"), AttrSel("role", "eq", "complementary"),
       AttrSel("role", "eq", "banner"), AttrSel("role", "eq", "contentinfo"),
       ClassSel("ad"), ClassSel("ads"), ClassSel("advertisement"), ClassSel("advert"),
       AttrSel("class", "sub", "ad-"), AttrSel("class", "sub", "ads-"),
       AttrSel("id", "sub", "ad-"), AttrSel("id", "sub", "ads-"),
       ClassSel("social"), ClassSel("social-share"), ClassSel("share-buttons"),
       ClassSel("sharing"),
       ClassSel("comments"), IdSel("comments"), ClassSel("comment-section"),
       ClassSel("related"), ClassSel("related-posts"), ClassSel("recommended"),
       ClassSel("suggestions"),
       TagSel("script"), TagSel("style"), TagSel("noscript"), TagSel("iframe"),
       TagSel("form"),
       AttrSel("hidden", "has", ""), AttrSel("aria-hidden", "eq", "true"),
       ClassSel("hidden"), ClassSel("visually-hidden") >>

\* every match the selector loops visit: <<selector index, element>>; a
\* string that does not parse is skipped
Visits(doc, sels) ==
    {v \in (DOMAIN sels) \X Elements(doc) : sels[v[1]].ok /\ Matches(doc, v[2], sels[v[1]])}

\* the loops over a selector list: the distinct fragments of the matches, in
\* the order the loops first meet them (selector by selector, and for one
\* selector in document order)
CollectFragments(doc, sels) ==
    LET V == Visits(doc, sels)
        F == {ElemHtml(doc, v[2]) : v \in V}
        first(f) == Least({v[1] * (Len(doc.tok) + 1) + v[2] :
                              v \in {w \in V : ElemHtml(doc, w[2]) = f}})
    IN  [r \in 1..Cardinality(F) |->
            CHOOSE f \in F : Cardinality({g \in F : first(g) < first(f)}) = r - 1]

\* place f behind every fragment at least as long: a stable descending sort
RECURSIVE InsertByLen(_, _)
InsertByLen(sorted, f) ==
    IF Len(sorted) = 0 THEN <<f>>
    ELSE IF StrBytes(sorted[1]) >= StrBytes(f)
         THEN <<sorted[1]>> \o InsertByLen(Tail(sorted), f)
    ELSE <<f>> \o sorted

\* excluded_fragments.sort_by(|a, b| b.len().cmp(&a.len()))
RECURSIVE SortByLenDesc(_)
SortByLenDesc(frags) ==
    IF Len(frags) = 0 THEN <<>>
    ELSE InsertByLen(SortByLenDesc(SubSeq(frags, 1, Len(frags) - 1)), frags[Len(frags)])

\* str::replacen(fragment, "", 1): the first occurrence only
Remove_FirstOnly(s, f) ==
    LET at == {p \in 1..(Len(s) - Len(f) + 1) : SubSeq(s, p, p + Len(f) - 1) = f}
    IN  IF Len(f) = 0 \/ at = {} THEN s
        ELSE SubSeq(s, 1, Least(at) - 1) \o SubSeq(s, Least(at) + Len(f), Len(s))

\* str::replace(fragment, ""): every non-overlapping occurrence, left to right
RECURSIVE Remove(_, _)
Remove(s, f) ==
    LET at == {p \in 1..(Len(s) - Len(f) + 1) : SubSeq(s, p, p + Len(f) - 1) = f}
    IN  IF Len(f) = 0 \/ at = {} THEN s
        ELSE SubSeq(s, 1, Least(at) - 1)
             \o Remove(SubSeq(s, Least(at) + Len(f), Len(s)), f)

RECURSIVE RemoveAll(_, _)
RemoveAll(s, frags) ==
    IF Len(frags) = 0 THEN s ELSE RemoveAll(Remove(s, frags[1]), Tail(frags))

IsSpace(tok) == tok.k \in {"nl", "sp"}

\* last index of the run of whitespace tokens that starts at i
SpaceRunEnd(s, i) ==
    LET stops == {j \in (i + 1)..Len(s) : ~IsSpace(s[j])}
    IN  IF stops = {} THEN Len(s) ELSE Least(stops) - 1

\* the newlines of the whitespace run that starts at i
RunNewlines(s, i) == {j \in i..SpaceRunEnd(s, i) : s[j].k = "nl"}

\* the same with lazy quantifiers, \n\s*?\n\s*?\n: a match ends at the third
\* newline of the run
RECURSIVE CollapseBlankLines_Lazy(_, _)
CollapseBlankLines_Lazy(s, i) ==
    LET starts == {j \in i..Len(s) : s[j].k = "nl" /\ Cardinality(RunNewlines(s, j)) >= 3}
    IN  IF starts = {} THEN SubSeq(s, i, Len(s))
        ELSE LET first == Least(starts)
                 nls == RunNewlines(s, first)
                 third == CHOOSE j \in nls : Cardinality({x \in nls : x <= j}) = 3
             IN  SubSeq(s, i, first - 1) \o <<NL, NL>> \o CollapseBlankLines_Lazy(s, third + 1)

\* Regex \n\s*\n\s*\n replaced by "\n\n": a match starts at a newline that
\* has two more newlines in its whitespace run and, being greedy, ends at
\* the last newline of the run
RECURSIVE CollapseBlankLines(_, _)
CollapseBlankLines(s, i) ==
    LET starts == {j \in i..Len(s) : s[j].k = "nl" /\ Cardinality(RunNewlines(s, j)) >= 3}
    IN  IF starts = {} THEN SubSeq(s, i, Len(s))
        ELSE LET first == Least(starts)
                 nls == RunNewlines(s, first)
                 last == CHOOSE j \in nls : \A x \in nls : x <= j
             IN  SubSeq(s, i, first - 1) \o <<NL, NL>> \o CollapseBlankLines(s, last + 1)

\* a cleaner that deletes from the parser's serialization of the input
clean_html_with_selectors_Reserialized(h, additional_selectors) ==
    LET doc == ParseDocument(h)
        excluded_fragments ==
            SortByLenDesc(CollectFragments(doc, EXCLUDE_SELECTORS \o additional_selectors))
        cleaned == RemoveAll([i \in DOMAIN h |-> Canon(h[i])] \o <<>>, excluded_fragments)
    IN  CollapseBlankLines(cleaned, 1)

clean_html_with_selectors(h, additional_selectors) ==
    LET doc == ParseDocument(h)
        excluded_fragments ==
            SortByLenDesc(CollectFragments(doc, EXCLUDE_SELECTORS \o additional_selectors))
        cleaned == RemoveAll(h, excluded_fragments)
    IN  CollapseBlankLines(cleaned, 1)

clean_html(h) == clean_html_with_selectors(h, <<>>)

(***************************************************************************)
(* Inputs of the cleaning operations                                       *)
(***************************************************************************)
MaxBlocks == 2

RECURSIVE Concat(_, _)
Concat(blocks, idx) ==
    IF Len(idx) = 0 THEN <<>> ELSE blocks[idx[1]] \o Concat(blocks, Tail(idx))

\* every string made of 1..MaxBlocks of the blocks, in any order
DocsOf(blocks) ==
    {Concat(blocks, idx) : idx \in UNION {[1..n -> DOMAIN blocks] : n \in 1..MaxBlocks}}

CleanBlocks ==
    << El("nav", <<Text("Menu", 4, 1)>>),
       ElRaw("nav", <<"main-nav">>, "", <<Text("Menu", 4, 1)>>),
       El("script", <<Text("alert", 5, 1)>>),
       ElA("aside", <<"sidebar">>, "", <<Text("Related", 7, 1)>>),
       El("p", <<Text("Content", 7, 1)>>),
       El("div", El("nav", <<Text("Menu", 4, 1)>>)),
       ElA("div", <<"box">>, "", El("p", <<Text("Content", 7, 1)>>)),
       <<NL, SP, NL>> >>

\* ".box p"
BoxParagraphSel == Sel(<<<<Cmp("", {"box"}, ""), Cmp("p", {}, "")>>>>)

ExtraChoices ==
    { <<>>, <<ClassSel("box")>>, <<BoxParagraphSel>>, <<EmptySel("div")>>, <<InvalidSel>> }

InitClean ==
    /\ html \in DocsOf(CleanBlocks)
    /\ extra \in ExtraChoices
    /\ primary = InvalidSel
    /\ site = ""
    /\ pc = "start"
    /\ op = ""
    /\ feed = <<>>
    /\ articles = <<>>
    /\ queue = <<>>
    /\ failures = <<>>
    /\ extracted = {}
    /\ ProcessStart
    /\ out = <<>>
    /\ prev = <<>>
    /\ heuristic = FALSE
    /\ via = ""
    /\ elem = 0
    /\ req = "ok"

\* a caller runs clean_html on its input
CleanHtml ==
    /\ pc = "start"
    /\ extra = <<>>
    /\ out' = clean_html(html)
    /\ op' = "clean_html"
    /\ pc' = "cleaned"
    /\ UNCHANGED <<feed, articles, queue, failures, extracted>>
    /\ UNCHANGED <<html, extra, primary, site, prev, heuristic, via, elem, req>>
    /\ UNCHANGED statics

\* a caller runs clean_html_with_selectors on its input
CleanHtmlWithSelectors ==
    /\ pc = "start"
    /\ out' = clean_html_with_selectors(html, extra)
    /\ op' = "clean_html_with_selectors"
    /\ pc' = "cleaned"
    /\ UNCHANGED <<feed, articles, queue, failures, extracted>>
    /\ UNCHANGED <<html, extra, primary, site, prev, heuristic, via, elem, req>>
    /\ UNCHANGED statics

\* the caller runs the same function again, on the output it got
CleanAgain ==
    /\ pc = "cleaned"
    /\ prev' = out
    /\ out' = IF op = "clean_html" THEN clean_html(out)
              ELSE clean_html_with_selectors(out, extra)
    /\ pc' = "recleaned"
    /\ UNCHANGED <<feed, articles, queue, failures, extracted>>
    /\ UNCHANGED <<html, extra, primary, site, op, heuristic, via, elem, req>>
    /\ UNCHANGED statics

NextClean == CleanHtml \/ CleanHtmlWithSelectors \/ CleanAgain

SpecClean == InitClean /\ [][NextClean]_vars

(***************************************************************************)
(* Claims about Clean                                                      *)
(***************************************************************************)
BoilerplateTags == {"nav", "script", "aside"}

HasTag(s, tags) == \E i \in DOMAIN s : s[i].k = "open" /\ s[i].tag \in tags

\* element i of doc matches a rule of the base taxonomy or of the extras
IsExcluded(doc, i, extras) ==
    \/ \E x \in DOMAIN EXCLUDE_SELECTORS : Matches(doc, i, EXCLUDE_SELECTORS[x])
    \/ \E x \in DOMAIN extras : extras[x].ok /\ Matches(doc, i, extras[x])

\* the text runs of h that lie in no excluded element
KeptText(h, extras) ==
    LET doc == ParseDocument(h)
        bad == {i \in Elements(doc) : IsExcluded(doc, i, extras)}
        keep(p) == doc.tok[p].k = "text" /\ \A i \in bad : ~(i < p /\ p < doc.end[i])
        at == SelectSeq([p \in DOMAIN doc.tok |-> p], keep)
    IN  [x \in DOMAIN at |-> doc.tok[at[x]]]

IsPlainText(tok) == tok.k = "text"

RECURSIVE IsSubsequence(_, _)
IsSubsequence(a, b) ==
    IF Len(a) = 0 THEN TRUE
    ELSE IF Len(b) = 0 THEN FALSE
    ELSE IF a[1] = b[1] THEN IsSubsequence(Tail(a), Tail(b))
    ELSE IsSubsequence(a, Tail(b))

UsedExtras == IF op = "clean_html" THEN <<>> ELSE extra

\* C1: whenever the input of Clean holds a <nav>, <script> or <aside>
\* element, the output holds none of those tags and keeps, in order, the
\* text of the elements that match no exclusion rule.
C1_CleanRemovesBoilerplate ==
    (pc = "cleaned" /\ HasTag(html, BoilerplateTags)) =>
        /\ ~HasTag(out, BoilerplateTags)
        /\ IsSubsequence(KeptText(html, UsedExtras), SelectSeq(out, IsPlainText))

\* C2: cleaning the output of Clean again, with the same extras, changes nothing.
C2_CleanIdempotent == pc = "recleaned" => out = prev

(***************************************************************************)
(* Scores: calculate_content_score computes in f64; the model keeps the    *)
(* exact fraction n/d (d > 0) that the f64 value approximates.             *)
(***************************************************************************)
Rat(n, d) == [n |-> n, d |-> d]

RatInt(k) == Rat(k, 1)

RatAdd(a, b) == IF a.d = b.d THEN Rat(a.n + b.n, a.d) ELSE Rat(a.n * b.d + b.n * a.d, a.d * b.d)

RatSub(a, b) == RatAdd(a, Rat(0 - b.n, b.d))

RatScale(a, k) == Rat(a.n * k, a.d)

\* a < b, by continued fractions (no product of numerator and denominator)
RECURSIVE RatLess(_, _)
RatLess(a, b) ==
    LET qa == a.n \div a.d
        qb == b.n \div b.d
        ra == a.n % a.d
        rb == b.n % b.d
    IN  IF qa # qb THEN qa < qb
        ELSE IF rb = 0 THEN FALSE
        ELSE IF ra = 0 THEN TRUE
        ELSE RatLess(Rat(b.d, rb), Rat(a.d, ra))

RatEq(a, b) == ~RatLess(a, b) /\ ~RatLess(b, a)

Min(a, b) == IF a <= b THEN a ELSE b

(***************************************************************************)
(* calculate_text_density / calculate_link_density / calculate_content_score *)
(***************************************************************************)
\* html and text are strings; the result is text.len() / html.len()
calculate_text_density(h, text) ==
    IF Len(h) = 0 THEN RatInt(0) ELSE Rat(StrBytes(text), StrBytes(h))

RECURSIVE SumTextBytes(_, _)
SumTextBytes(doc, elems) ==
    IF Len(elems) = 0 THEN 0
    ELSE StrBytes(ElemText(doc, elems[1])) + SumTextBytes(doc, Tail(elems))

calculate_link_density(doc, e) ==
    LET total_text == ElemText(doc, e)
    IN  IF Len(total_text) = 0 THEN RatInt(0)
        ELSE Rat(SumTextBytes(doc, Select(doc, e, TagSel("a"))), StrBytes(total_text))

HasAny(s, words) == \E w \in words : StrContains(s, w)

\* calculate_content_score with the length bonus granted from 500 bytes on
calculate_content_score_Inclusive(doc, e) ==
    LET h == ElemHtml(doc, e)
        text == ElemText(doc, e)
        s2 == RatSub(RatScale(calculate_text_density(h, text), 100),
                     RatScale(calculate_link_density(doc, e), 50))
        s3 == RatAdd(s2, RatInt(Min(Len(Select(doc, e, TagSel("p"))), 10) * 5))
        s4 == IF StrBytes(text) >= 500 THEN RatAdd(s3, RatInt(20)) ELSE s3
        s5 == IF StrBytes(text) >= 1000 THEN RatAdd(s4, RatInt(10)) ELSE s4
        class == Attr(doc.tok[e], "class")
        class_lower == ToLowercase(class.v)
        s6 == IF class.some /\ HasAny(class_lower, {"article", "content", "post"})
              THEN RatAdd(s5, RatInt(25)) ELSE s5
        s7 == IF class.some /\ HasAny(class_lower, {"sidebar", "comment", "nav"})
              THEN RatSub(s6, RatInt(25)) ELSE s6
        id == Attr(doc.tok[e], "id")
    IN  IF id.some /\ HasAny(ToLowercase(id.v), {"article", "content", "main"})
        THEN RatAdd(s7, RatInt(25)) ELSE s7

\* calculate_content_score with the paragraph bonus left uncapped
calculate_content_score_NoCap(doc, e) ==
    LET h == ElemHtml(doc, e)
        text == ElemText(doc, e)
        s2 == RatSub(RatScale(calculate_text_density(h, text), 100),
                     RatScale(calculate_link_density(doc, e), 50))
        s3 == RatAdd(s2, RatInt(Len(Select(doc, e, TagSel("p"))) * 5))
        s4 == IF StrBytes(text) > 500 THEN RatAdd(s3, RatInt(20)) ELSE s3
        s5 == IF StrBytes(text) > 1000 THEN RatAdd(s4, RatInt(10)) ELSE s4
        class == Attr(doc.tok[e], "class")
        class_lower == ToLowercase(class.v)
        s6 == IF class.some /\ HasAny(class_lower, {"article", "content", "post"})
              THEN RatAdd(s5, RatInt(25)) ELSE s5
        s7 == IF class.some /\ HasAny(class_lower, {"sidebar", "comment", "nav"})
              THEN RatSub(s6, RatInt(25)) ELSE s6
        id == Attr(doc.tok[e], "id")
    IN  IF id.some /\ HasAny(ToLowercase(id.v), {"article", "content", "main"})
        THEN RatAdd(s7, RatInt(25)) ELSE s7

calculate_content_score(doc, e) ==
    LET h == ElemHtml(doc, e)
        text == ElemText(doc, e)
        s1 == RatAdd(RatInt(0), RatScale(calculate_text_density(h, text), 100))
        s2 == RatSub(s1, RatScale(calculate_link_density(doc, e), 50))
        p_count == Len(Select(doc, e, TagSel("p")))
        s3 == RatAdd(s2, RatInt(Min(p_count, 10) * 5))
        s4 == IF StrBytes(text) > 500 THEN RatAdd(s3, RatInt(20)) ELSE s3
        s5 == IF StrBytes(text) > 1000 THEN RatAdd(s4, RatInt(10)) ELSE s4
        class == Attr(doc.tok[e], "class")
        class_lower == ToLowercase(class.v)
        s6 == IF class.some /\ HasAny(class_lower, {"article", "content", "post"})
              THEN RatAdd(s5, RatInt(25)) ELSE s5
        s7 == IF class.some /\ HasAny(class_lower, {"sidebar", "comment", "nav"})
              THEN RatSub(s6, RatInt(25)) ELSE s6
        id == Attr(doc.tok[e], "id")
        id_lower == ToLowercase(id.v)
    IN  IF id.some /\ HasAny(id_lower, {"article", "content", "main"})
        THEN RatAdd(s7, RatInt(25)) ELSE s7

(***************************************************************************)
(* extract_main_content / extract_content_with_fallback                    *)
(***************************************************************************)
\* CONTENT_SELECTORS with "main" tried before "article"
CONTENT_SELECTORS_MainFirst ==
    << TagSel("main"), TagSel("article"), AttrSel("role", "eq", "main"),
       ClassSel("article"), ClassSel("content"), ClassSel("post"), ClassSel("entry"),
       ClassSel("post-content"), ClassSel("article-content"), ClassSel("entry-content"),
       IdSel("content"), IdSel("main"), IdSel("article") >>

CONTENT_SELECTORS ==
    << TagSel("article"), TagSel("main"), AttrSel("role", "eq", "main"),
       ClassSel("article"), ClassSel("content"), ClassSel("post"), ClassSel("entry"),
       ClassSel("post-content"), ClassSel("article-content"), ClassSel("entry-content"),
       IdSel("content"), IdSel("main"), IdSel("article") >>

NON_CONTENT_SELECTORS ==
    << TagSel("nav"), TagSel("header"), TagSel("footer"), TagSel("aside"),
       ClassSel("sidebar"), ClassSel("menu"), ClassSel("navigation"),
       ClassSel("comment"), ClassSel("comments"), ClassSel("footer"), ClassSel("header") >>

\* "div, section, article, main"
CandidatesSelector ==
    Sel(<< <<Cmp("div", {}, "")>>, <<Cmp("section", {}, "")>>,
           <<Cmp("article", {}, "")>>, <<Cmp("main", {}, "")>> >>)

SelectorFloor == 200

CandidateFloor == 100

None == [some |-> FALSE, v |-> <<>>]

Some(v) == [some |-> TRUE, v |-> v]

\* the first loop without its length floor
RECURSIVE SelectorPhase_NoFloor(_, _)
SelectorPhase_NoFloor(doc, sels) ==
    IF Len(sels) = 0 THEN 0
    ELSE LET m == IF sels[1].ok THEN Select(doc, 0, sels[1]) ELSE <<>>
         IN  IF Len(m) > 0 THEN m[1] ELSE SelectorPhase_NoFloor(doc, Tail(sels))

\* the first loop with its floor counted in characters
RECURSIVE SelectorPhase_Chars(_, _)
SelectorPhase_Chars(doc, sels) ==
    IF Len(sels) = 0 THEN 0
    ELSE LET m == IF sels[1].ok THEN Select(doc, 0, sels[1]) ELSE <<>>
         IN  IF Len(m) > 0 /\ StrChars(ElemText(doc, m[1])) > SelectorFloor
             THEN m[1]
             ELSE SelectorPhase_Chars(doc, Tail(sels))

\* the first loop: the element a content selector yields (0: none); only the
\* first match of each selector is looked at
RECURSIVE SelectorPhase(_, _)
SelectorPhase(doc, sels) ==
    IF Len(sels) = 0 THEN 0
    ELSE LET m == IF sels[1].ok THEN Select(doc, 0, sels[1]) ELSE <<>>
         IN  IF Len(m) > 0 /\ StrBytes(ElemText(doc, m[1])) > SelectorFloor
             THEN m[1]
             ELSE SelectorPhase(doc, Tail(sels))

\* NON_CONTENT_SELECTORS.iter().any(|sel| doc.select(sel).any(|e| e.html() == elem_html))
is_non_content(doc, e) ==
    LET elem_html == ElemHtml(doc, e)
    IN  \E x \in DOMAIN NON_CONTENT_SELECTORS :
            /\ NON_CONTENT_SELECTORS[x].ok
            /\ \E i \in Elements(doc) :
                  Matches(doc, i, NON_CONTENT_SELECTORS[x]) /\ ElemHtml(doc, i) = elem_html

\* the second loop without its length floor
RECURSIVE ScoringPhase_NoFloor(_, _, _, _)
ScoringPhase_NoFloor(doc, cands, best_score, best_html) ==
    IF Len(cands) = 0 THEN best_html
    ELSE LET e == cands[1]
         IN  IF is_non_content(doc, e)
             THEN ScoringPhase_NoFloor(doc, Tail(cands), best_score, best_html)
             ELSE LET score == calculate_content_score(doc, e)
                  IN  IF RatLess(best_score, score)
                      THEN ScoringPhase_NoFloor(doc, Tail(cands), score, Some(ElemHtml(doc, e)))
                      ELSE ScoringPhase_NoFloor(doc, Tail(cands), best_score, best_html)

\* the second loop with a later candidate replacing an equal earlier one
RECURSIVE ScoringPhase_TiesReplace(_, _, _, _)
ScoringPhase_TiesReplace(doc, cands, best_score, best_html) ==
    IF Len(cands) = 0 THEN best_html
    ELSE LET e == cands[1]
         IN  IF StrBytes(ElemText(doc, e)) < CandidateFloor \/ is_non_content(doc, e)
             THEN ScoringPhase_TiesReplace(doc, Tail(cands), best_score, best_html)
             ELSE LET score == calculate_content_score(doc, e)
                  IN  IF ~RatLess(score, best_score)
                      THEN ScoringPhase_TiesReplace(doc, Tail(cands), score, Some(ElemHtml(doc, e)))
                      ELSE ScoringPhase_TiesReplace(doc, Tail(cands), best_score, best_html)

\* the second loop, over the candidates left, with the accumulator
RECURSIVE ScoringPhase(_, _, _, _)
ScoringPhase(doc, cands, best_score, best_html) ==
    IF Len(cands) = 0 THEN best_html
    ELSE LET e == cands[1]
         IN  IF StrBytes(ElemText(doc, e)) < CandidateFloor
             THEN ScoringPhase(doc, Tail(cands), best_score, best_html)
             ELSE IF is_non_content(doc, e)
             THEN ScoringPhase(doc, Tail(cands), best_score, best_html)
             ELSE LET score == calculate_content_score(doc, e)
                  IN  IF RatLess(best_score, score)
                      THEN ScoringPhase(doc, Tail(cands), score, Some(ElemHtml(doc, e)))
                      ELSE ScoringPhase(doc, Tail(cands), best_score, best_html)

extract_main_content(h) ==
    LET doc == ParseDocument(h)
        e == SelectorPhase(doc, CONTENT_SELECTORS)
    IN  IF e # 0 THEN Some(ElemHtml(doc, e))
        ELSE ScoringPhase(doc, Select(doc, 0, CandidatesSelector), RatInt(0), None)

\* the element the primary selector yields (0: no match, or no selector)
PrimaryMatch(h, primary_selector) ==
    LET doc == ParseDocument(h)
        m == IF primary_selector.ok THEN Select(doc, 0, primary_selector) ELSE <<>>
    IN  IF Len(m) > 0 THEN m[1] ELSE 0

\* extract_content_with_fallback with the heuristic asked before the selector
extract_content_with_fallback_HeuristicFirst(h, primary_selector) ==
    LET r == extract_main_content(h)
        e == PrimaryMatch(h, primary_selector)
    IN  IF r.some THEN r
        ELSE IF e # 0 THEN Some(ElemHtml(ParseDocument(h), e))
        ELSE None

extract_content_with_fallback(h, primary_selector) ==
    LET e == PrimaryMatch(h, primary_selector)
    IN  IF e # 0 THEN Some(ElemHtml(ParseDocument(h), e))
        ELSE extract_main_content(h)

\* which phase of extract_main_content gave the result
MainVia(h, result) ==
    IF SelectorPhase(ParseDocument(h), CONTENT_SELECTORS) # 0 THEN "selector"
    ELSE IF result.some THEN "score"
    ELSE "none"

(***************************************************************************)
(* Inputs of the extraction operations                                     *)
(***************************************************************************)
MaxExtractBlocks == 2

Para(name, n) == El("p", <<Text(name, n, 1)>>)

\* <article> with a heading and 3 paragraphs, 605 characters of text
ArticleLong ==
    El("article", El("h1", <<Text("Title", 5, 1)>>)
                  \o Para("first", 200) \o Para("second", 200) \o Para("third", 200))

ArticleShort == El("article", Para("teaser", 50))

\* 70 characters of 3 bytes each
ArticleWide == El("article", El("p", <<Text("kanji", 70, 3)>>))

\* 40 characters of 3 bytes each
DivWide == El("div", El("p", <<Text("kana", 40, 3)>>))

\* a short first <article> inside a <main> with 300 characters of text
MainWithTeaser == El("main", ArticleShort \o Para("lead", 250))

DivContent == ElA("div", <<"content">>, "", Para("body", 150))

DivSidebar == ElA("div", <<"sidebar">>, "", El("a", <<Text("links", 300, 1)>>))

DivCustom == ElA("div", <<>>, "custom-content", Para("custom", 40))

\* all of its text is link text, and its class costs 25: a score below 0
SectionLinks == ElA("section", <<"comment-nav">>, "", El("a", <<Text("more", 100, 1)>>))

\* two elements of equal score
DivItalic == El("div", El("i", <<Text("one", 150, 1)>>))

DivBold == El("div", El("b", <<Text("two", 150, 1)>>))

ExtractBlocks ==
    << ArticleLong, ArticleShort, ArticleWide, DivWide, MainWithTeaser, DivContent,
       DivSidebar, DivCustom, SectionLinks, DivItalic, DivBold >>

\* the document of the scenario, its paragraph n characters long
ScenarioDoc(n) ==
    El("html", El("body",
        El("header", <<Text("H", 1, 1)>>) \o El("nav", <<Text("N", 1, 1)>>)
        \o El("main", El("article", El("h1", <<Text("T", 1, 1)>>) \o Para("Body", n)))
        \o El("aside", <<Text("A", 1, 1)>>) \o El("footer", <<Text("F", 1, 1)>>)))

\* 81: the paragraph as the scenario writes it
ScenarioLengths == {81, 98, 99, 150, 200, 250}

ExtractDocs ==
    {Concat(ExtractBlocks, idx) :
        idx \in UNION {[1..n -> DOMAIN ExtractBlocks] : n \in 1..MaxExtractBlocks}}
    \cup {ScenarioDoc(n) : n \in ScenarioLengths}

PrimaryChoices ==
    { IdSel("custom-content"), IdSel("nonexistent-selector"), ClassSel("content"),
      TagSel("div"), InvalidSel }

InitExtract ==
    /\ html \in ExtractDocs
    /\ primary \in PrimaryChoices
    /\ extra = <<>>
    /\ site = ""
    /\ pc = "start"
    /\ op = ""
    /\ feed = <<>>
    /\ articles = <<>>
    /\ queue = <<>>
    /\ failures = <<>>
    /\ extracted = {}
    /\ ProcessStart
    /\ out = None
    /\ prev = <<>>
    /\ heuristic = FALSE
    /\ via = ""
    /\ elem = 0
    /\ req = "ok"

\* a caller runs extract_main_content on its input
ExtractMainContent ==
    /\ pc = "start"
    /\ out' = extract_main_content(html)
    /\ heuristic' = TRUE
    /\ via' = MainVia(html, out')
    /\ op' = "extract_main_content"
    /\ pc' = "extracted"
    /\ UNCHANGED <<feed, articles, queue, failures, extracted>>
    /\ UNCHANGED <<html, extra, primary, site, prev, elem, req>>
    /\ UNCHANGED statics

\* a caller runs extract_content_with_fallback on its input
ExtractContentWithFallback ==
    /\ pc = "start"
    /\ out' = extract_content_with_fallback(html, primary)
    /\ heuristic' = (PrimaryMatch(html, primary) = 0)
    /\ via' = IF PrimaryMatch(html, primary) # 0 THEN "primary" ELSE MainVia(html, out')
    /\ op' = "extract_content_with_fallback"
    /\ pc' = "extracted"
    /\ UNCHANGED <<feed, articles, queue, failures, extracted>>
    /\ UNCHANGED <<html, extra, primary, site, prev, elem, req>>
    /\ UNCHANGED statics

NextExtract == ExtractMainContent \/ ExtractContentWithFallback

SpecExtract == InitExtract /\ [][NextExtract]_vars

(***************************************************************************)
(* Claims about extraction                                                 *)
(***************************************************************************)
\* the visible text of a serialized fragment
TextOf(fragment) == SelectSeq(fragment, IsTextTok)

\* the set of elements of doc that sel matches
MatchSet(doc, sel) == {i \in Elements(doc) : sel.ok /\ Matches(doc, i, sel)}

\* the first of them in document order (0: none)
FirstInDocOrder(S) == IF S = {} THEN 0 ELSE CHOOSE i \in S : \A j \in S : i <= j

\* C3: extract_content_with_fallback returns the first match of the primary
\* selector, in document order, without entering the heuristic; with no
\* match, or with a string that is no selector, it returns what
\* extract_main_content returns; it returns None only if both find nothing.
C3_FallbackOrder ==
    (pc = "extracted" /\ op = "extract_content_with_fallback") =>
        LET doc == ParseDocument(html)
            m == FirstInDocOrder(MatchSet(doc, primary))
        IN  /\ m # 0 => out = Some(ElemHtml(doc, m)) /\ ~heuristic
            /\ m = 0 => out = extract_main_content(html) /\ heuristic
            /\ ~out.some => m = 0 /\ ~extract_main_content(html).some

\* the primary selector matched several elements and the first one came back
C3_Witness ==
    /\ pc = "extracted" /\ op = "extract_content_with_fallback"
    /\ Cardinality(MatchSet(ParseDocument(html), primary)) >= 2
    /\ out.some /\ ~heuristic

CandidateTags == {"div", "section", "article", "main"}

ArticlesOf(doc) == {i \in Elements(doc) : doc.tok[i].tag = "article"}

\* an <article> with at least 3 paragraphs and more than 500 characters of text
IsFullArticle(doc, a) ==
    /\ doc.tok[a].tag = "article"
    /\ Len(Select(doc, a, TagSel("p"))) >= 3
    /\ StrChars(ElemText(doc, a)) > 500

\* C4 as stated: whatever else the document holds, extract_main_content
\* returns a fragment with the text of every such article.
C4_AnyFullArticleReturned ==
    (pc = "extracted" /\ op = "extract_main_content") =>
        LET doc == ParseDocument(html)
        IN  \A a \in ArticlesOf(doc) :
                IsFullArticle(doc, a) =>
                    out.some /\ IsSubsequence(ElemText(doc, a), TextOf(out.v))

\* C4 amended: when the first <article> of the document is such an article,
\* extract_main_content returns that article, serialized.
C4_FirstFullArticleReturned ==
    (pc = "extracted" /\ op = "extract_main_content") =>
        LET doc == ParseDocument(html)
            a == FirstInDocOrder(ArticlesOf(doc))
        IN  (a # 0 /\ IsFullArticle(doc, a)) =>
                /\ out = Some(ElemHtml(doc, a))
                /\ IsSubsequence(ElemText(doc, a), TextOf(out.v))

\* the article is returned although another candidate precedes it
C4_Witness ==
    /\ pc = "extracted" /\ op = "extract_main_content"
    /\ LET doc == ParseDocument(html)
           a == FirstInDocOrder(ArticlesOf(doc))
       IN  /\ a # 0 /\ IsFullArticle(doc, a) /\ out = Some(ElemHtml(doc, a))
           /\ \E e \in Elements(doc) : e < a /\ doc.tok[e].tag \in CandidateTags

\* the <article> element of the scenario document
ScenarioArticle(n) == El("article", El("h1", <<Text("T", 1, 1)>>) \o Para("Body", n))

\* C5 as stated: for the scenario document (paragraph of 81 characters)
\* extract_main_content returns the <article> element.
C5_ScenarioReturnsArticle ==
    (pc = "extracted" /\ op = "extract_main_content" /\ html = ScenarioDoc(81)) =>
        out = Some(ScenarioArticle(81))

\* C5 amended: for the scenario document extract_main_content returns None
\* while the article's text (the heading's 1 byte and the paragraph) is
\* shorter than 100 bytes, and the <article> element from 100 bytes on.
C5_ScenarioByLength ==
    \A n \in ScenarioLengths :
        (pc = "extracted" /\ op = "extract_main_content" /\ html = ScenarioDoc(n)) =>
            IF 1 + n < 100 THEN out = None ELSE out = Some(ScenarioArticle(n))

C5_Witness ==
    /\ pc = "extracted" /\ op = "extract_main_content"
    /\ html = ScenarioDoc(81) /\ out = None

\* C6 as stated: whatever the selector-first phase of either function
\* returns has more than 200 characters of visible text.
C6_FloorInBothFunctions ==
    (pc = "extracted" /\ via \in {"primary", "selector"}) =>
        StrChars(TextOf(out.v)) > 200

\* C6 amended: what the selector-first phase of extract_main_content returns
\* has more than 200 bytes of visible text; the primary selector of
\* extract_content_with_fallback has no floor, its first match is returned.
C6_FloorInMainOnly ==
    /\ (pc = "extracted" /\ via = "selector") => StrBytes(TextOf(out.v)) > 200
    /\ (pc = "extracted" /\ via = "primary") =>
          LET doc == ParseDocument(html)
          IN  out = Some(ElemHtml(doc, FirstInDocOrder(MatchSet(doc, primary))))

\* the selector phase returned 70 characters that take 210 bytes
C6_Witness ==
    /\ pc = "extracted" /\ via = "selector"
    /\ StrBytes(TextOf(out.v)) > 200 /\ StrChars(TextOf(out.v)) <= 200

IsNonContentRule(doc, i) ==
    \E x \in DOMAIN NON_CONTENT_SELECTORS : Matches(doc, i, NON_CONTENT_SELECTORS[x])

\* the candidates that survive: long enough (length measured by Measure) and
\* serialized like no element a non-content rule matches
Survivors(doc, Measure(_)) ==
    {e \in Elements(doc) :
        /\ doc.tok[e].tag \in CandidateTags
        /\ Measure(ElemText(doc, e)) >= 100
        /\ ~\E i \in Elements(doc) : IsNonContentRule(doc, i) /\ ElemHtml(doc, i) = ElemHtml(doc, e)}

\* the first survivor of highest score, if that score is above 0
BestOf(doc, S) ==
    LET score(e) == calculate_content_score(doc, e)
        top == {e \in S : \A f \in S : ~RatLess(score(e), score(f))}
    IN  IF \E e \in S : RatLess(RatInt(0), score(e))
        THEN Some(ElemHtml(doc, FirstInDocOrder(top)))
        ELSE None

\* C7 as stated, the floor counted in characters
C7_BestCandidateByChars ==
    (pc = "extracted" /\ via \in {"score", "none"}) =>
        out = BestOf(ParseDocument(html), Survivors(ParseDocument(html), StrChars))

\* C7 amended: the scoring phase returns the first element in document order
\* of highest score among the div/section/article/main elements with at
\* least 100 bytes of visible text that are serialized like no element a
\* non-content rule matches, if that score is above 0, and None otherwise.
C7_BestCandidateByBytes ==
    (pc = "extracted" /\ via \in {"score", "none"}) =>
        out = BestOf(ParseDocument(html), Survivors(ParseDocument(html), StrBytes))

\* two survivors tie for the highest score and the earlier one is returned
C7_Witness ==
    /\ pc = "extracted" /\ via = "score"
    /\ LET doc == ParseDocument(html)
           S == Survivors(doc, StrBytes)
       IN  \E e, f \in S :
              /\ e < f
              /\ ElemHtml(doc, e) # ElemHtml(doc, f)
              /\ RatEq(calculate_content_score(doc, e), calculate_content_score(doc, f))
              /\ out = Some(ElemHtml(doc, e))

\* the same string with every text run spelled in single-byte characters,
\* character for character
SingleByte(h) ==
    [i \in DOMAIN h |-> IF h[i].k = "text" THEN [h[i] EXCEPT !.w = 1] ELSE h[i]] \o <<>>

\* the same string with every text run spelled in single-byte characters,
\* byte for byte
AsBytes(h) ==
    [i \in DOMAIN h |->
        IF h[i].k = "text" THEN [h[i] EXCEPT !.n = h[i].n * h[i].w, !.w = 1] ELSE h[i]] \o <<>>

HasWideText(h) == \E i \in DOMAIN h : h[i].k = "text" /\ h[i].w > 1

\* C27 as amended: the lengths compared with the 200 and 100 floors and the
\* 500 and 1000 bonus thresholds are UTF-8 byte counts of the visible text,
\* so two texts of the same number of bytes are treated identically by
\* extract_main_content and calculate_content_score, whether their
\* characters are single-byte or multi-byte.
C27_LengthsAreBytes ==
    (pc = "extracted" /\ op = "extract_main_content") =>
        LET other == extract_main_content(AsBytes(html))
            doc == ParseDocument(html)
            docb == ParseDocument(AsBytes(html))
        IN  /\ out.some = other.some
            /\ out.some => AsBytes(out.v) = other.v
            /\ \A e \in Elements(doc) :
                   calculate_content_score(doc, e) = calculate_content_score(docb, e)

\* a text of 70 three-byte characters has passed the 200 floor, which the
\* same number of single-byte characters does not pass
C27_Witness ==
    /\ pc = "extracted" /\ op = "extract_main_content"
    /\ out.some /\ HasWideText(out.v)
    /\ via = "selector"
    /\ StrChars(TextOf(out.v)) <= SelectorFloor
    /\ extract_main_content(SingleByte(html)) # Some(SingleByte(out.v))

\* C27: the lengths compared with the floors and the bonus thresholds are
\* counts of characters, so two texts of the same number of characters are
\* treated identically by extract_main_content and calculate_content_score
\* whether their characters are single-byte or multi-byte.
C27_LengthsAreCharacters ==
    (pc = "extracted" /\ op = "extract_main_content") =>
        LET other == extract_main_content(SingleByte(html))
        IN  /\ out.some = other.some
            /\ out.some => SingleByte(out.v) = other.v

(***************************************************************************)
(* Inputs of calculate_content_score                                       *)
(***************************************************************************)
MaxParagraphs == 12

\* MaxParagraphs children, the first np of them <p>, the others <b>, each
\* holding k characters
RECURSIVE Children(_, _, _)
Children(i, np, k) ==
    IF i > MaxParagraphs THEN <<>>
    ELSE El(IF i <= np THEN "p" ELSE "b", IF k = 0 THEN <<>> ELSE <<Text("w", k, 1)>>)
         \o Children(i + 1, np, k)

\* a <div> with np paragraphs, link bytes of link text and total bytes of text
ScoreEl(pr, np) ==
    ElA("div", pr.class, pr.id,
        Children(1, np, pr.k)
        \o (IF pr.link = 0 THEN <<>> ELSE El("a", <<Text("link", pr.link, 1)>>))
        \o (IF pr.total - pr.link - MaxParagraphs * pr.k = 0 THEN <<>>
            ELSE <<Text("tail", pr.total - pr.link - MaxParagraphs * pr.k, 1)>>))

Profile(class, id, k, link, total) ==
    [class |-> class, id |-> id, k |-> k, link |-> link, total |-> total]

Profiles ==
    { Profile(<<>>, "", 0, 0, 0),
      Profile(<<>>, "", 10, 0, 300),
      Profile(<<"Article-Body">>, "", 10, 0, 500),
      Profile(<<"post", "sidebar">>, "MAIN", 10, 100, 501),
      Profile(<<"nav">>, "", 10, 400, 1000),
      Profile(<<>>, "content", 10, 0, 1001) }

\* two elements that differ in the number of paragraphs only
ScoreDocs ==
    {ScoreEl(pr, p1) \o ScoreEl(pr, p2) :
        pr \in Profiles, p1 \in 0..MaxParagraphs, p2 \in 0..MaxParagraphs}

InitScore ==
    /\ html \in ScoreDocs
    /\ primary = InvalidSel
    /\ extra = <<>>
    /\ site = ""
    /\ pc = "start"
    /\ op = ""
    /\ feed = <<>>
    /\ articles = <<>>
    /\ queue = <<>>
    /\ failures = <<>>
    /\ extracted = {}
    /\ ProcessStart
    /\ out = RatInt(0)
    /\ prev = <<>>
    /\ heuristic = FALSE
    /\ via = ""
    /\ elem = 0
    /\ req = "ok"

\* calculate_content_score runs on a candidate element of the document
CalculateContentScore ==
    /\ pc = "start"
    /\ \E e \in Elements(ParseDocument(html)) :
          /\ ParseDocument(html).tok[e].tag \in {"div", "section", "article", "main"}
          /\ elem' = e
          /\ out' = calculate_content_score(ParseDocument(html), e)
    /\ op' = "calculate_content_score"
    /\ pc' = "scored"
    /\ UNCHANGED <<feed, articles, queue, failures, extracted>>
    /\ UNCHANGED <<html, extra, primary, site, prev, heuristic, via, req>>
    /\ UNCHANGED statics

NextScore == CalculateContentScore

SpecScore == InitScore /\ [][NextScore]_vars

(***************************************************************************)
(* Claims about the score                                                  *)
(***************************************************************************)
TextLen(doc, e) == StrBytes(ElemText(doc, e))

HtmlLen(doc, e) == StrBytes(ElemHtml(doc, e))

ParagraphCount(doc, e) == Cardinality({d \in Descendants(doc, e) : doc.tok[d].tag = "p"})

RECURSIVE SumTextLen(_, _)
SumTextLen(doc, S) ==
    IF S = {} THEN 0
    ELSE LET x == CHOOSE y \in S : TRUE
         IN  TextLen(doc, x) + SumTextLen(doc, S \ {x})

AnchorTextLen(doc, e) ==
    SumTextLen(doc, {d \in Descendants(doc, e) : doc.tok[d].tag = "a"})

LengthBonus(t) == (IF t > 500 THEN 20 ELSE 0) + (IF t > 1000 THEN 10 ELSE 0)

ClassIdBonus(tok) ==
    LET c == ToLowercase(JoinClass(tok.class))
        i == ToLowercase(tok.id)
    IN  (IF \E w \in {"article", "content", "post"} : StrContains(c, w) THEN 25 ELSE 0)
        - (IF \E w \in {"sidebar", "comment", "nav"} : StrContains(c, w) THEN 25 ELSE 0)
        + (IF \E w \in {"article", "content", "main"} : StrContains(i, w) THEN 25 ELSE 0)

\* textDensity*100 - linkDensity*50 + min(paragraphCount,10)*5 + lengthBonus
\* + classIdBonus, over the common denominator len(html)*len(text)
ScoreFormula(doc, e) ==
    LET t == TextLen(doc, e)
        h == HtmlLen(doc, e)
        a == AnchorTextLen(doc, e)
        whole == Min(ParagraphCount(doc, e), 10) * 5 + LengthBonus(t) + ClassIdBonus(doc.tok[e])
    IN  IF t = 0 THEN RatInt(whole)
        ELSE Rat(100 * t * t - 50 * a * h + whole * h * t, h * t)

\* C8: the score of an element is textDensity*100 - linkDensity*50
\* + min(paragraphCount,10)*5 + lengthBonus + classIdBonus.
C8_ScoreFormula ==
    pc = "scored" => RatEq(out, ScoreFormula(ParseDocument(html), elem))

\* an element with link text, exactly 1000 bytes of text, a class that costs 25
C8_Witness ==
    /\ pc = "scored"
    /\ LET doc == ParseDocument(html)
       IN  /\ TextLen(doc, elem) = 1000
           /\ AnchorTextLen(doc, elem) > 0
           /\ ClassIdBonus(doc.tok[elem]) = 0 - 25
           /\ ParagraphCount(doc, elem) > 10

\* the elements of doc that differ from e in nothing the score reads but the
\* number of paragraphs
SameButParagraphs(doc, e) ==
    {f \in Elements(doc) :
        /\ TextLen(doc, f) = TextLen(doc, e)
        /\ HtmlLen(doc, f) = HtmlLen(doc, e)
        /\ AnchorTextLen(doc, f) = AnchorTextLen(doc, e)
        /\ doc.tok[f].class = doc.tok[e].class
        /\ doc.tok[f].id = doc.tok[e].id}

\* C9: all else equal, a paragraph more adds exactly 5 to the score up to 10
\* paragraphs, and nothing above 10; so the score never falls with the count.
C9_ParagraphMonotone ==
    pc = "scored" =>
        LET doc == ParseDocument(html)
            pe == ParagraphCount(doc, elem)
        IN  \A f \in SameButParagraphs(doc, elem) :
                LET pf == ParagraphCount(doc, f)
                    sf == calculate_content_score(doc, f)
                IN  pe <= pf =>
                        /\ ~RatLess(sf, out)
                        /\ pf <= 10 => RatEq(RatSub(sf, out), RatInt(5 * (pf - pe)))
                        /\ pe >= 10 => RatEq(sf, out)

\* the scored element has fewer than 10 paragraphs, its twin more than 10
C9_Witness ==
    /\ pc = "scored"
    /\ LET doc == ParseDocument(html)
       IN  \E f \in SameButParagraphs(doc, elem) :
              /\ ParagraphCount(doc, elem) < 10
              /\ ParagraphCount(doc, f) > 10
              /\ RatLess(out, calculate_content_score(doc, f))

(***************************************************************************)
(* WebSiteInterface: the trait's helpers and the adapters' parse_article   *)
(***************************************************************************)

\* trim_text with Regex \s+: a single whitespace character is replaced too
RECURSIVE trim_text_AnyRun(_, _)
trim_text_AnyRun(s, i) ==
    LET starts == {j \in i..Len(s) : IsSpace(s[j])}
    IN  IF starts = {} THEN SubSeq(s, i, Len(s))
        ELSE SubSeq(s, i, Least(starts) - 1) \o <<NL>>
             \o trim_text_AnyRun(s, SpaceRunEnd(s, Least(starts)) + 1)

\* Regex \s\s+ replaced by "\n": every run of two or more whitespace
\* characters becomes one newline (a text run holds no double whitespace)
RECURSIVE trim_text(_, _)
trim_text(s, i) ==
    LET starts == {j \in i..(Len(s) - 1) : IsSpace(s[j]) /\ IsSpace(s[j + 1])}
    IN  IF starts = {} THEN SubSeq(s, i, Len(s))
        ELSE SubSeq(s, i, Least(starts) - 1) \o <<NL>>
             \o trim_text(s, SpaceRunEnd(s, Least(starts)) + 1)

IsNotTag(tok) == tok.k \notin {"open", "close"}

\* html2md::rewrite_html: the markup is dropped and the text runs and the
\* whitespace between them are kept (the Markdown decoration is not modelled)
rewrite_html(h) == SelectSeq(h, IsNotTag)

\* a descendant chain of compound selectors, "main article div.entry-content"
Chain(cs) == Sel(<<cs>>)

\* one compound selector with at most one class
C(tag, class, id) == Cmp(tag, IF class = "" THEN {} ELSE {class}, id)

Ok(h, t) == [k |-> "ok", html |-> h, text |-> t]

Err(e) == [k |-> "err", e |-> e]

\* Url::parse(..).unwrap() on a string that is not a URL
Panic == [k |-> "panic"]

Adapter(name, selectors, clean, extras, missing, url) ==
    [name |-> name, selectors |-> selectors, clean |-> clean, extras |-> extras,
     missing |-> missing, url |-> url]

PremiumSelectors ==
    << ClassSel("premium-info"), ClassSel("premium-banner"), ClassSel("article-rating"),
       ClassSel("feedback"), ClassSel("newsletter"), ClassSel("member-banner"),
       ClassSel("read-more"), ClassSel("colBoxPremium") >>

HatenaEntry == Chain(<<C("", "", "main"), C("article", "", ""), C("div", "entry-content", "")>>)

CmsBodyParagraph == Chain(<<C("", "", "cmsBody"), C("div", "inner", ""), C("p", "", "")>>)

\* the adapters: the selectors parse_article tries in order, whether it
\* calls clean_content on the element, site_specific_exclude_selectors, what
\* it does when nothing matches, and how it treats a string that is no URL
AIItNow ==
    Adapter("AIItNow",
            <<Chain(<<C("body", "", ""), C("div", "contents", ""),
                      C("div", "article_area", ""), C("div", "entry-content", "")>>)>>,
            FALSE, <<>>, "err", "unwrap")

AINews == Adapter("AINews", <<TagSel("body")>>, TRUE, <<>>, "err", "unwrap")

AIScholar == Adapter("AIScholar", <<TagSel("article")>>, TRUE, <<>>, "err", "unwrap")

AIZine == Adapter("AIZine", <<HatenaEntry>>, TRUE, <<>>, "err", "unwrap")

CookpadTechBlog == Adapter("CookpadTechBlog", <<HatenaEntry>>, FALSE, <<>>, "err", "unwrap")

DeNAEngineeringBlog ==
    Adapter("DeNAEngineeringBlog",
            <<Chain(<<C("main", "", ""), C("article", "", ""), C("section", "content-box", "")>>)>>,
            TRUE, <<>>, "err", "unwrap")

Gigazine ==
    Adapter("Gigazine",
            <<Chain(<<C("", "", "article"), C("div", "cntimage", "")>>)>>,
            TRUE,
            <<ClassSel("bnrbox"), ClassSel("cntbnr"), ClassSel("relatedarticle"),
              ClassSel("amazonbox"), ClassSel("rakutenbox")>>,
            "err", "unwrap")

GreeTechBlog ==
    Adapter("GreeTechBlog",
            <<Chain(<<C("div", "site-body", ""), C("article", "", ""), C("div", "entry-body", "")>>)>>,
            FALSE, <<>>, "err", "unwrap")

ITMediaAtIt ==
    Adapter("ITMediaAtIt", <<CmsBodyParagraph>>, TRUE, PremiumSelectors, "err", "unwrap")

ITMediaExecutive ==
    Adapter("ITMediaExecutive", <<CmsBodyParagraph>>, TRUE, PremiumSelectors, "err", "unwrap")

Medium == Adapter("Medium", <<TagSel("article")>>, TRUE, <<>>, "placeholder", "try")

MercariEngineeringBlog ==
    Adapter("MercariEngineeringBlog",
            <<Chain(<<C("div", "page-content", "")>>),
              Chain(<<C("main", "", ""), C("div", "page-content", "")>>),
              Chain(<<C("main", "", ""), C("section", "", ""), C("div", "_body_5d9ad_19", "")>>)>>,
            FALSE, <<>>, "err", "unwrap")

NikkeiXTech ==
    Adapter("NikkeiXTech",
            <<Chain(<<C("div", "article_body", "")>>),
              Chain(<<C("article", "article", ""), C("div", "articleBody", "")>>),
              Chain(<<C("article", "p-article", ""), C("", "p-article_body", "")>>)>>,
            TRUE, <<>>, "err", "unwrap")

RetrievaTechBlog ==
    Adapter("RetrievaTechBlog",
            <<Chain(<<C("", "", "content"), C("article", "", ""), C("div", "entry-content", "")>>)>>,
            TRUE, <<>>, "err", "unwrap")

RustBlog ==
    Adapter("RustBlog", <<Chain(<<C("section", "", ""), C("div", "post", "")>>)>>,
            TRUE, <<>>, "err", "unwrap")

StockmarkTechBlog ==
    Adapter("StockmarkTechBlog", <<Chain(<<C("", "", "main"), C("div", "entry-inner", "")>>)>>,
            TRUE, <<>>, "err", "unwrap")

Supership ==
    Adapter("Supership",
            <<Chain(<<C("main", "", ""), C("article", "", ""),
                      C("div", "c-grid__block--content", "")>>)>>,
            TRUE, <<>>, "err", "unwrap")

\* cleans the whole page, then joins every matching paragraph
TechCrunch ==
    Adapter("TechCrunch",
            <<Chain(<<C("main", "", ""), C("div", "entry-content", ""), C("p", "", "")>>)>>,
            TRUE, <<>>, "join", "unwrap")

TokyoUniversityEngineering ==
    Adapter("TokyoUniversityEngineering",
            <<Chain(<<C("div", "blog-body-1__content", "")>>),
              Chain(<<C("main", "", ""), C("div", "ly_cont", ""), C("div", "blog_title", "")>>),
              Chain(<<C("div", "bl_wysiwyg", "")>>)>>,
            TRUE, <<>>, "err", "unwrap")

TrendMicroSecurityAdvisories ==
    Adapter("TrendMicroSecurityAdvisories",
            <<Chain(<<C("section", "TEArticle", ""), C("div", "articleContainer", "")>>)>>,
            TRUE, <<>>, "err", "unwrap")

ZennTopic ==
    Adapter("ZennTopic", <<Chain(<<C("article", "", ""), C("section", "", "")>>)>>,
            TRUE,
            <<ClassSel("LikeButton"), ClassSel("BookmarkButton"),
              ClassSel("AuthorProfile"), ClassSel("SupportButton")>>,
            "err", "unwrap")

Sites ==
    { AIItNow, AINews, AIScholar, AIZine, CookpadTechBlog, DeNAEngineeringBlog, Gigazine,
      GreeTechBlog, ITMediaAtIt, ITMediaExecutive, Medium, MercariEngineeringBlog,
      NikkeiXTech, RetrievaTechBlog, RustBlog, StockmarkTechBlog, Supership, TechCrunch,
      TokyoUniversityEngineering, TrendMicroSecurityAdvisories, ZennTopic }

SiteNamed(name) == CHOOSE a \in Sites : a.name = name

\* WebSiteInterface::clean_content
clean_content(a, h) == clean_html_with_selectors(h, a.extras)

\* the first element any of the selectors matches, trying them in order
RECURSIVE FirstMatch(_, _)
FirstMatch(doc, sels) ==
    IF Len(sels) = 0 THEN 0
    ELSE LET m == Select(doc, 0, sels[1])
         IN  IF Len(m) > 0 THEN m[1] ELSE FirstMatch(doc, Tail(sels))

\* x.html() of every match, joined with "\n"
RECURSIVE JoinHtml(_, _)
JoinHtml(doc, m) ==
    IF Len(m) = 0 THEN <<>>
    ELSE IF Len(m) = 1 THEN ElemHtml(doc, m[1])
    ELSE ElemHtml(doc, m[1]) \o <<NL>> \o JoinHtml(doc, Tail(m))

NoHtml == <<Text("NO", 2, 1), SP, Text("HTML", 4, 1)>>

NoText == <<Text("NO", 2, 1), SP, Text("TEXT", 4, 1)>>

\* the (html, text) pair parse_article holds before its last line, or its
\* error, for the page response
html_and_text(a, response) ==
    IF a.missing = "join"
    THEN LET doc == ParseDocument(clean_content(a, response))
             h == JoinHtml(doc, Select(doc, 0, a.selectors[1]))
         IN  Ok(h, rewrite_html(h))
    ELSE LET doc == ParseDocument(response)
             e == FirstMatch(doc, a.selectors)
         IN  IF e = 0
             THEN IF a.missing = "placeholder" THEN Ok(NoHtml, NoText)
                  ELSE Err("ScrapeError")
             ELSE LET raw_html == ElemHtml(doc, e)
                      h == IF a.clean THEN clean_content(a, raw_html) ELSE raw_html
                  IN  Ok(h, rewrite_html(h))

\* parse_article(url) of adapter a; r is what the url and the request do and
\* response the body of the page that comes back
parse_article(a, r, response) ==
    IF r = "bad_url" THEN (IF a.url = "try" THEN Err("ParseError") ELSE Panic)
    ELSE IF r = "send_error" THEN Err("RequestError")
    ELSE LET p == html_and_text(a, response)
         IN  IF p.k = "ok" THEN Ok(trim_text(p.html, 1), trim_text(p.text, 1)) ELSE p

(***************************************************************************)
(* Pages for parse_article and its specification                           *)
(***************************************************************************)

\* an element one compound selector matches
ElemFor(c, children) ==
    ElA(IF c.tag = "" THEN "div" ELSE c.tag,
        IF c.classes = {} THEN <<>> ELSE <<CHOOSE x \in c.classes : TRUE>>,
        c.id, children)

\* the nested elements a descendant chain matches, around content
RECURSIVE Nest(_, _)
Nest(chain, content) ==
    IF Len(chain) = 0 THEN content
    ELSE ElemFor(chain[1], Nest(Tail(chain), content))

PageFor(sel, content) == Nest(sel.alts[1], content)

AllSelectors == UNION {Range(a.selectors) : a \in Sites}

BodyPlain == <<Text("Body", 300, 1)>>

BodySpaced == <<Text("Intro", 5, 1), NL, SP, SP, Text("Body", 4, 1)>>

BodyWithAd == ElA("span", <<"ad">>, "", <<Text("Buy", 3, 1)>>) \o BodyPlain

BodyWithBanner == ElA("span", <<"bnrbox">>, "", <<Text("Banner", 6, 1)>>) \o BodyPlain

BodyWithScript == El("script", <<Text("track", 5, 1)>>) \o BodyPlain

\* <script type='module'>: the source spells the tag its own way
BodyWithRawScript == ElRaw("script", <<>>, "", <<Text("track", 5, 1)>>) \o BodyPlain

\* block content, for content elements other than <p>
BodyWithNav == El("nav", <<Text("Menu", 4, 1)>>) \o Para("Body", 300)

\* an isolated space and a run of three whitespace characters
BodyWords ==
    <<Text("Intro", 5, 1), SP, Text("more", 4, 1), NL, SP, SP, Text("Body", 4, 1)>>

Bodies ==
    {BodyPlain, BodySpaced, BodyWords, BodyWithAd, BodyWithBanner, BodyWithScript, BodyWithRawScript, <<>>}

\* the selectors whose content element may hold block content
BlockSelectors == {s \in AllSelectors : s.alts[1][Len(s.alts[1])].tag # "p"}

\* pages in which no adapter but AINews ("body") finds its element
BarePages == { <<>>, Para("Sorry", 5), El("div", Para("Moved", 5)) }

\* one content element; the same selector matching twice; a later selector
\* of an adapter matching before an earlier one
ParsePages ==
    {PageFor(s, b) : s \in AllSelectors, b \in Bodies}
    \cup {PageFor(s, BodyWithNav) : s \in BlockSelectors}
    \cup {PageFor(s, BodyPlain) \o PageFor(s, BodySpaced) : s \in AllSelectors}
    \cup {PageFor(a.selectors[2], BodySpaced) \o PageFor(a.selectors[1], BodyPlain) :
              a \in {x \in Sites : Len(x.selectors) > 1}}
    \cup BarePages

InitParse ==
    /\ site \in {a.name : a \in Sites}
    /\ \/ req = "ok" /\ html \in ParsePages
       \/ req \in {"bad_url", "send_error"} /\ html = <<>>
    /\ extra = <<>>
    /\ primary = InvalidSel
    /\ pc = "start"
    /\ op = ""
    /\ feed = <<>>
    /\ articles = <<>>
    /\ queue = <<>>
    /\ failures = <<>>
    /\ extracted = {}
    /\ ProcessStart
    /\ out = <<>>
    /\ prev = <<>>
    /\ heuristic = FALSE
    /\ via = ""
    /\ elem = 0

\* the crawler asks an adapter for the content of one article
ParseArticle ==
    /\ pc = "start"
    /\ site # ""
    /\ out' = parse_article(SiteNamed(site), req, html)
    /\ op' = "parse_article"
    /\ pc' = "parsed"
    /\ UNCHANGED <<feed, articles, queue, failures, extracted>>
    /\ UNCHANGED <<html, extra, primary, site, prev, heuristic, via, elem, req>>
    /\ UNCHANGED statics

NextParse == ParseArticle

SpecParse == InitParse /\ [][NextParse]_vars

\* the page holds no element any of the adapter's selectors matches
ContentMissing(a, h) == FirstMatch(ParseDocument(h), a.selectors) = 0

\* C10: for every site adapter, parse_article returns an error, never an Ok
\* result, when no content element can be found in the fetched page; in
\* particular never Ok with placeholder or empty html/text.
C10_MissingContentIsError ==
    (pc = "parsed" /\ req = "ok" /\ ContentMissing(SiteNamed(site), html))
        => out.k = "err"

\* the content element parse_article picks for adapter a in page h, serialized
ContentFragment(a, h) ==
    LET doc == ParseDocument(h) IN ElemHtml(doc, FirstMatch(doc, a.selectors))

\* C11: for every site adapter, the html of a successful parse_article has
\* been passed through Clean with the base taxonomy plus the site's extras
\* before text conversion: it holds no <nav>, <script> or <aside> element,
\* and the text is converted from the cleaned html, not from the raw fragment.
C11_ParsedHtmlIsCleaned ==
    (pc = "parsed" /\ out.k = "ok")
        => /\ ~HasTag(out.html, BoilerplateTags)
           /\ LET a == SiteNamed(site)
              IN  (a.missing = "err") =>
                     LET cleaned == clean_html_with_selectors(ContentFragment(a, html), a.extras)
                     IN  /\ out.html = trim_text(cleaned, 1)
                         /\ out.text = trim_text(rewrite_html(cleaned), 1)

\* s with every maximal run of two or more whitespace characters replaced
\* by one newline and every other character kept
CollapseRuns(s) ==
    LET inRun(k) == /\ IsSpace(s[k])
                    /\ \/ k > 1 /\ IsSpace(s[k - 1])
                       \/ k < Len(s) /\ IsSpace(s[k + 1])
        head(k) == inRun(k) /\ (k = 1 \/ ~IsSpace(s[k - 1]))
        keep(k) == ~inRun(k) \/ head(k)
        idx == SelectSeq([k \in 1..Len(s) |-> k], keep)
    IN  [x \in DOMAIN idx |-> IF head(idx[x]) THEN NL ELSE s[idx[x]]] \o <<>>

NoAdjacentSpaces(s) == \A k \in 1..(Len(s) - 1) : ~(IsSpace(s[k]) /\ IsSpace(s[k + 1]))

\* C12: the last step of parse_article, trim_text, is applied to both the
\* html and the text: every maximal run of 2 or more whitespace characters
\* becomes exactly one newline, an isolated whitespace character stays, and
\* neither output holds two adjacent whitespace characters.
C12_TrimBothOutputs ==
    (pc = "parsed" /\ out.k = "ok")
        => LET p == html_and_text(SiteNamed(site), html)
           IN  /\ out.html = CollapseRuns(p.html)
               /\ out.text = CollapseRuns(p.text)
               /\ NoAdjacentSpaces(out.html)
               /\ NoAdjacentSpaces(out.text)

\* a page whose content holds a whitespace run and an isolated space was parsed
C12_Witness ==
    /\ pc = "parsed" /\ out.k = "ok"
    /\ LET p == html_and_text(SiteNamed(site), html)
       IN  /\ ~NoAdjacentSpaces(p.html) /\ ~NoAdjacentSpaces(p.text)
           /\ \E k \in DOMAIN out.html : out.html[k] = SP
           /\ \E k \in DOMAIN out.text : out.text[k] = SP
           /\ out.html # p.html /\ out.text # p.text

(***************************************************************************)
(* WebArticle::new.  Titles, descriptions and links are character strings. *)
(***************************************************************************)
CDataOpen == "<![CDATA["

CDataClose == "]]>"

\* the string w stands in s at position i
At(s, i, w) == i + Len(w) - 1 <= Len(s) /\ SubSeq(s, i, i + Len(w) - 1) = w

\* the regex's dot: any character but the newline
NoNewline(s, i, j) == \A k \in i..j : SubSeq(s, k, k) # "\n"

\* the positions where "]]>" ends a match of <!\[CDATA\[(?<text>.+?)\]\]> that
\* starts at i: at least one character, none of them a newline, in between
CDataEnds(s, i) ==
    {j \in (i + Len(CDataOpen) + 1)..Len(s) :
        At(s, j, CDataClose) /\ NoNewline(s, i + Len(CDataOpen), j - 1)}

\* reg_cdata.captures(s), group "text": the leftmost match, the shortest text
reg_cdata(s) ==
    LET starts == {i \in 1..Len(s) : At(s, i, CDataOpen) /\ CDataEnds(s, i) # {}}
    IN  IF starts = {} THEN None
        ELSE LET i == Least(starts)
             IN  Some(SubSeq(s, i + Len(CDataOpen), Least(CDataEnds(s, i)) - 1))

unwrap_or(o, default) == IF o.some THEN o.v ELSE default

\* html2md::rewrite_html of a character string: the text without its markup,
\* a markup span running from a "<" to the next ">"
RECURSIVE rewrite_html_str(_)
rewrite_html_str(s) ==
    LET lts == {i \in 1..Len(s) : SubSeq(s, i, i) = "<"}
    IN  IF lts = {} THEN s
        ELSE LET i == Least(lts)
                 gts == {j \in i..Len(s) : SubSeq(s, j, j) = ">"}
             IN  IF gts = {} THEN s
                 ELSE SubSeq(s, 1, i - 1)
                      \o rewrite_html_str(SubSeq(s, Least(gts) + 1, Len(s)))

WebArticleProperty_default ==
    [summary |-> Some(""), is_new_technology_related |-> Some(FALSE),
     is_new_product_related |-> Some(FALSE),
     is_new_academic_paper_related |-> Some(FALSE), is_ai_related |-> Some(FALSE),
     is_security_related |-> Some(FALSE), is_it_related |-> Some(FALSE)]

\* WebArticle::new with the description copied into text
WebArticle_new_TextFilled(site_name, site_url, title, article_url, description, timestamp) ==
    LET d == rewrite_html_str(unwrap_or(reg_cdata(description), description))
    IN  [site |-> [name |-> site_name, url |-> site_url],
         title |-> unwrap_or(reg_cdata(title), title),
         article_url |-> article_url,
         description |-> d,
         properties |-> WebArticleProperty_default,
         timestamp |-> timestamp,
         text |-> d,
         html |-> ""]

WebArticle_new(site_name, site_url, title, article_url, description, timestamp) ==
    [site |-> [name |-> site_name, url |-> site_url],
     title |-> unwrap_or(reg_cdata(title), title),
     article_url |-> article_url,
     description |-> rewrite_html_str(unwrap_or(reg_cdata(description), description)),
     properties |-> WebArticleProperty_default,
     timestamp |-> timestamp,
     text |-> "",
     html |-> ""]

(***************************************************************************)
(* Inputs of WebArticle::new                                               *)
(***************************************************************************)
CData(s) == CDataOpen \o s \o CDataClose

\* the contents of a CDATA section: one line, empty, two lines, with markup,
\* a single bracket
CDataTexts == {"Hello", "", "Line one\nLine two", "<b>Hi</b> there", "]"}

RawFields ==
    {CData(s) : s \in CDataTexts}
        \cup {"Hello", "a < b", "<p>Hi</p>", "<![CDATA[Hello",
              "News: <![CDATA[Hello]]> today", "<![CDATA[one]]> and <![CDATA[two]]>"}

Timestamps == 1..2

InitArticle ==
    /\ feed \in [title : RawFields, description : RawFields, timestamp : Timestamps]
    /\ site = "RustBlog"
    /\ html = <<>>
    /\ extra = <<>>
    /\ primary = InvalidSel
    /\ pc = "start"
    /\ op = ""
    /\ out = <<>>
    /\ prev = <<>>
    /\ heuristic = FALSE
    /\ via = ""
    /\ elem = 0
    /\ req = "ok"
    /\ articles = <<>>
    /\ queue = <<>>
    /\ failures = <<>>
    /\ extracted = {}
    /\ ProcessStart

NewArticle ==
    /\ pc = "start"
    /\ out' = WebArticle_new("Rust Blog", "https://blog.rust-lang.org/feed", feed.title,
                             "https://blog.rust-lang.org/post", feed.description,
                             feed.timestamp)
    /\ op' = "new"
    /\ pc' = "built"
    /\ UNCHANGED <<feed, articles, queue, failures, extracted>>
    /\ UNCHANGED <<html, extra, primary, site, prev, heuristic, via, elem, req>>
    /\ UNCHANGED statics

NextArticle == NewArticle

SpecArticle == InitArticle /\ [][NextArticle]_vars

(***************************************************************************)
(* Claims about WebArticle::new                                            *)
(***************************************************************************)
\* C13: for every string s, a title whose raw value is exactly <![CDATA[s]]>
\* gives the title s, and a description of that form gives s converted from
\* HTML to Markdown; s may be empty or span several lines.
C13_CDataUnwrapped ==
    pc = "built"
        => \A s \in CDataTexts :
              /\ feed.title = CData(s) => out.title = s
              /\ feed.description = CData(s) => out.description = rewrite_html_str(s)

\* the field is, in its entirety, of the form <![CDATA[...]]>
IsCData(s) ==
    /\ Len(s) >= Len(CDataOpen) + Len(CDataClose)
    /\ At(s, 1, CDataOpen)
    /\ At(s, Len(s) - Len(CDataClose) + 1, CDataClose)

\* C14: a title that is not, in its entirety, of the form <![CDATA[...]]> is
\* stored unchanged; a title that embeds a CDATA section between other text
\* keeps the surrounding text.
C14_OtherTitlesUnchanged ==
    (pc = "built" /\ ~IsCData(feed.title)) => out.title = feed.title

(***************************************************************************)
(* get_articles.  The body of the listing response is a record: dialect is *)
(* the format the text conforms to ("rss1", "rss2", "atom" or "html") and  *)
(* items what a parser of that format finds in it, in document order.  A   *)
(* date string is a record: fmt the format it is written in, t the instant *)
(* it denotes.                                                             *)
(***************************************************************************)
Date(fmt, t) == [fmt |-> fmt, t |-> t]

\* DateTime::parse_from_rfc2822, parse_from_rfc3339, parse_from_str(.., fmt)
parse_date(fmt, d) == IF d.fmt = fmt THEN Some(d.t) ELSE None

\* DateTime::<Local>::default()
DefaultTimestamp == 0

\* chrono::Local::now()
Now == 99

\* parsers::rss1::parse, parsers::rss2::parse, parsers::atom::parse
parse_feed(dialect, body) == IF body.dialect = dialect THEN Some(body.items) ELSE None

\* the elements the list selector of a scraping adapter finds in the page
select_entries(body) == IF body.dialect = "html" THEN body.items ELSE <<>>

OkArticles(as) == [k |-> "ok", articles |-> as]

\* the description of how an adapter's get_articles reads its feed:
\* feederr: "err" (match/if let on the parser's result) or "expect";
\* field: the item's date field read; fmt: the format it is parsed in;
\* ondate: "unwrap" or "try" (the ? operator); prefix: the link filter
Listing(name, site_name, url, dialect, feederr, field, fmt, ondate, prefix) ==
    [name |-> name, site_name |-> site_name, url |-> url, dialect |-> dialect,
     feederr |-> feederr, field |-> field, fmt |-> fmt, ondate |-> ondate,
     prefix |-> prefix]

\* get_articles of a feed adapter with the items collected in reverse
feed_get_articles_Reversed(a, body) ==
    LET parsed == parse_feed(a.dialect, body)
        keep(f) == a.prefix = "" \/ At(f.link, 1, a.prefix)
        good(f) == f[a.field].some /\ parse_date(a.fmt, f[a.field].v).some
    IN  IF ~parsed.some
        THEN IF a.feederr = "expect" THEN Panic ELSE Err("ScrapeError")
        ELSE LET items == SelectSeq(parsed.v, keep)
                 n == Len(items)
                 bad == {i \in DOMAIN items : ~good(items[i])}
             IN  IF bad # {}
                 THEN IF a.ondate = "unwrap" THEN Panic
                      ELSE IF ~items[Least(bad)][a.field].some THEN Err("ScrapeError")
                      ELSE Err("DateTimeParseError")
                 ELSE OkArticles([i \in DOMAIN items |->
                          WebArticle_new(a.site_name, a.url, items[n + 1 - i].title,
                                         items[n + 1 - i].link,
                                         unwrap_or(items[n + 1 - i].description, ""),
                                         parse_date(a.fmt, items[n + 1 - i][a.field].v).v)]
                          \o <<>>)

\* get_articles of a feed adapter: parse the feed, keep the items the link
\* filter admits, build one article per item; the first item whose date is
\* missing or does not parse ends the call
feed_get_articles(a, body) ==
    LET parsed == parse_feed(a.dialect, body)
        keep(f) == a.prefix = "" \/ At(f.link, 1, a.prefix)
        good(f) == f[a.field].some /\ parse_date(a.fmt, f[a.field].v).some
    IN  IF ~parsed.some
        THEN IF a.feederr = "expect" THEN Panic ELSE Err("ScrapeError")
        ELSE LET items == SelectSeq(parsed.v, keep)
                 bad == {i \in DOMAIN items : ~good(items[i])}
             IN  IF bad # {}
                 THEN IF a.ondate = "unwrap" THEN Panic
                      ELSE IF ~items[Least(bad)][a.field].some THEN Err("ScrapeError")
                      ELSE Err("DateTimeParseError")
                 ELSE OkArticles([i \in DOMAIN items |->
                          WebArticle_new(a.site_name, a.url, items[i].title, items[i].link,
                                         unwrap_or(items[i].description, ""),
                                         parse_date(a.fmt, items[i][a.field].v).v)] \o <<>>)

\* str::trim
trim(s) ==
    LET inked == {i \in 1..Len(s) : SubSeq(s, i, i) \notin {" ", "\n"}}
    IN  IF inked = {} THEN ""
        ELSE SubSeq(s, Least(inked), CHOOSE j \in inked : \A i \in inked : i <= j)

\* get_articles of a scraping adapter that skips an entry whose date is
\* missing or does not parse (StockmarkTechBlog, Supership), with the date
\* check left out: such an entry gets the default timestamp
scrape_get_articles_KeepBadDates(a, body) ==
    LET keep(e) == e.title.some /\ e.href.some
        entries == SelectSeq(select_entries(body), keep)
        ts(e) == IF e.date.some /\ parse_date(a.fmt, e.date.v).some
                 THEN parse_date(a.fmt, e.date.v).v ELSE DefaultTimestamp
    IN  OkArticles([i \in DOMAIN entries |->
            WebArticle_new(a.site_name, a.url, entries[i].title.v, entries[i].href.v,
                           IF a.field = "desc" THEN unwrap_or(entries[i].desc, "") ELSE "",
                           ts(entries[i]))] \o <<>>)

\* StockmarkTechBlog and Supership: an entry without title, link or date, or
\* with a date that does not parse, is skipped (continue)
scrape_get_articles(a, body) ==
    LET keep(e) == /\ e.title.some /\ e.href.some
                   /\ e.date.some /\ parse_date(a.fmt, e.date.v).some
        entries == SelectSeq(select_entries(body), keep)
    IN  OkArticles([i \in DOMAIN entries |->
            WebArticle_new(a.site_name, a.url, entries[i].title.v, entries[i].href.v,
                           IF a.field = "desc" THEN unwrap_or(entries[i].desc, "") ELSE "",
                           parse_date(a.fmt, entries[i].date.v).v)] \o <<>>)

\* AIScholar: an entry without link is skipped; a date that is missing or
\* does not parse becomes the default timestamp
AIScholar_get_articles(a, body) ==
    LET keep(e) == e.title.some /\ e.href.some
        entries == SelectSeq(select_entries(body), keep)
        ts(e) == IF e.date.some /\ parse_date(a.fmt, e.date.v).some
                 THEN parse_date(a.fmt, e.date.v).v ELSE DefaultTimestamp
    IN  OkArticles([i \in DOMAIN entries |->
            WebArticle_new(a.site_name, a.url, entries[i].title.v, entries[i].href.v,
                           unwrap_or(entries[i].desc, ""), ts(entries[i]))] \o <<>>)

\* Medium: an entry is kept when its first span says it is recent; the
\* timestamp is the time of the call
Medium_get_articles(a, body) ==
    LET recent(e) ==
            /\ e.age.some
            /\ LET text == ToLowercase(trim(e.age.v))
               IN  \/ StrContains(text, "just now")
                   \/ StrContains(text, "h ago")
                   \/ StrContains(text, "m ago")
        keep(e) == e.title.some /\ e.href.some /\ recent(e)
        entries == SelectSeq(select_entries(body), keep)
        url(e) == IF StrContains(e.href.v, "https://") THEN e.href.v
                  ELSE "https://medium.com" \o e.href.v
    IN  OkArticles([i \in DOMAIN entries |->
            WebArticle_new(a.site_name, a.url, entries[i].title.v, url(entries[i]),
                           unwrap_or(entries[i].desc, ""), Now)] \o <<>>)

\* get_articles of adapter a; r is what the request does and body the
\* response that comes back
get_articles(a, r, body) ==
    IF r = "send_error" THEN Err("RequestError")
    ELSE IF a.dialect # "html" THEN feed_get_articles(a, body)
    ELSE IF a.name = "AIScholar" THEN AIScholar_get_articles(a, body)
    ELSE IF a.name = "Medium" THEN Medium_get_articles(a, body)
    ELSE scrape_get_articles(a, body)

(***************************************************************************)
(* The adapters' get_articles.  For a scraping adapter (dialect "html")    *)
(* field is "desc" when the description is read from the entry, and ondate *)
(* names what happens to an entry without a usable date: "default",        *)
(* "skip", or "now" (Medium, which reads no date).                         *)
(***************************************************************************)
\* one record per adapter, from get_articles and the constructor of sites/<file>.rs
Listings ==
    { Listing("AIItNow", "AI IT Now", "https://ainow.ai/feed/",
          "rss2", "err", "publish_date", "rfc2822", "unwrap", ""),
      Listing("AINews", "AI News", "https://ai-news.dev/feeds/",
          "atom", "expect", "publish_date", "rfc3339", "unwrap", ""),
      Listing("AIScholar", "AI Scholar", "https://ai-scholar.tech/",
          "html", "", "desc", "ymd_hms", "default", ""),
      Listing("AIZine", "AIZINE", "https://otafuku-lab.co/aizine/feed/",
          "rss2", "err", "publish_date", "rfc2822", "try", ""),
      Listing("CookpadTechBlog", "Cookpad Tech Blog", "https://techlife.cookpad.com/rss",
          "atom", "expect", "updated", "rfc3339", "unwrap", ""),
      Listing("DeNAEngineeringBlog", "DeNA Engineering Blog", "https://engineering.dena.com/index.xml",
          "rss2", "err", "publish_date", "rfc2822", "unwrap", "https://engineering.dena.com/blog"),
      Listing("Gigazine", "Gigazine", "https://gigazine.net/news/rss_2.0/",
          "rss2", "err", "publish_date", "rfc2822", "unwrap", ""),
      Listing("GreeTechBlog", "GREE Tech Blog", "https://labs.gree.jp/blog/feed",
          "rss2", "err", "publish_date", "rfc2822", "unwrap", ""),
      Listing("ITMediaAtIt", "ITMedia @IT", "https://rss.itmedia.co.jp/rss/2.0/ait.xml",
          "rss2", "err", "publish_date", "rfc2822", "unwrap", ""),
      Listing("ITMediaExecutive", "ITMedia Executive", "https://rss.itmedia.co.jp/rss/2.0/executive.xml",
          "rss2", "err", "publish_date", "rfc2822", "try", ""),
      Listing("Medium", "Medium AI", "https://medium.com/tag/ai/archive",
          "html", "", "desc", "", "now", ""),
      Listing("MercariEngineeringBlog", "Mercari Engineering Blog", "https://engineering.mercari.com/blog/feed.xml",
          "rss2", "err", "publish_date", "rfc2822", "unwrap", ""),
      Listing("NikkeiXTech", "Nikkei XTech", "https://xtech.nikkei.com/rss/index.rdf",
          "rss1", "err", "date", "rfc3339", "unwrap", ""),
      Listing("RetrievaTechBlog", "Retrieva", "https://retrieva.jp/news/feed/",
          "rss2", "err", "publish_date", "rfc2822", "unwrap", ""),
      Listing("RustBlog", "Rust Blog", "https://blog.rust-lang.org/feed",
          "atom", "err", "publish_date", "rfc3339", "try", ""),
      Listing("StockmarkTechBlog", "Stockmark Tech Blog", "https://stockmark-tech.hatenablog.com/",
          "html", "", "desc", "ymd", "skip", ""),
      Listing("Supership", "Supership", "https://supership.jp/news/",
          "html", "", "", "dotted", "skip", ""),
      Listing("TechCrunch", "TechCrunch", "https://techcrunch.com/feed/",
          "rss1", "err", "publish_date", "rfc2822", "try", ""),
      Listing("TokyoUniversityEngineering", "Tokyo University Engineering", "https://www.t.u-tokyo.ac.jp/press/rss.xml",
          "rss2", "err", "publish_date", "rfc2822", "unwrap", ""),
      Listing("TrendMicroSecurityAdvisories", "Trend Micro Security Advisories", "http://feeds.trendmicro.com/jp/SecurityAdvisories",
          "rss2", "err", "publish_date", "rfc2822", "try", ""),
      Listing("ZennTopic", "Zenn Topic - rust", "https://zenn.dev/topics/rust/feed",
          "rss2", "err", "publish_date", "rfc2822", "unwrap", "") }

ListingNamed(name) == CHOOSE a \in Listings : a.name = name

(***************************************************************************)
(* Listing responses                                                       *)
(***************************************************************************)
MaxItems == 3

Digits == "123456789"

Digit(i) == SubSeq(Digits, i, i)

FeedKinds == {"rfc2822", "rfc3339", "nodate", "baddate", "offsite"}

\* the i-th item of a feed: every second title is a CDATA section and every
\* second item has no description
FeedItem(kind, i) ==
    [title |-> IF i % 2 = 0 THEN CData("Post " \o Digit(i)) ELSE "Post " \o Digit(i),
     link |-> IF kind = "offsite" THEN "https://example.com/" \o Digit(i)
              ELSE "https://engineering.dena.com/blog/" \o Digit(i),
     description |-> IF i % 2 = 0 THEN None
                     ELSE Some("<p>Summary " \o Digit(i) \o "</p>"),
     publish_date |-> CASE kind \in {"rfc2822", "offsite"} -> Some(Date("rfc2822", i))
                        [] kind = "rfc3339" -> Some(Date("rfc3339", i))
                        [] kind = "baddate" -> Some(Date("bad", i))
                        [] OTHER -> None,
     updated |-> CASE kind = "rfc3339" -> Some(Date("rfc3339", 10 + i))
                   [] kind = "baddate" -> Some(Date("bad", i))
                   [] OTHER -> None,
     date |-> CASE kind = "rfc3339" -> Some(Date("rfc3339", 20 + i))
                [] kind = "baddate" -> Some(Date("bad", i))
                [] OTHER -> None]

EntryKinds == {"ymd", "ymd_hms", "dotted", "nodate", "baddate", "notitle", "nolink"}

\* the i-th entry of a list page: what the adapter's selectors find in it
\* (StockmarkTechBlog looks for the date inside the title's element: an
\* entry without title has no date)
Entry(kind, i) ==
    [title |-> IF kind = "notitle" THEN None ELSE Some("Post " \o Digit(i)),
     href |-> IF kind = "nolink" THEN None
              ELSE IF i % 2 = 0 THEN Some("/p/" \o Digit(i))
              ELSE Some("https://example.com/" \o Digit(i)),
     desc |-> IF i % 2 = 0 THEN None ELSE Some("Summary " \o Digit(i)),
     date |-> CASE kind = "ymd" -> Some(Date("ymd", i))
                [] kind = "nolink" -> Some(Date(IF i % 2 = 0 THEN "ymd" ELSE "dotted", i))
                [] kind = "ymd_hms" -> Some(Date("ymd_hms", i))
                [] kind = "dotted" -> Some(Date("dotted", i))
                [] kind = "baddate" -> Some(Date("bad", i))
                [] OTHER -> None,
     age |-> CASE kind = "ymd" -> Some(" 3h ago ")
               [] kind = "ymd_hms" -> Some("Just now")
               [] kind = "dotted" -> Some("Jan 5")
               [] kind = "baddate" -> Some("5m ago")
               [] kind \in {"notitle", "nolink"} -> Some("1h ago")
               [] OTHER -> None]

KindSeqs(kinds) == UNION {[1..n -> kinds] : n \in 0..MaxItems}

Body(dialect, ks) ==
    [dialect |-> dialect,
     items |-> [i \in DOMAIN ks |->
                   IF dialect = "html" THEN Entry(ks[i], i) ELSE FeedItem(ks[i], i)]]

FeedBodies == {Body(d, ks) : d \in {"rss1", "rss2", "atom"}, ks \in KindSeqs(FeedKinds)}

ListBodies == {Body("html", ks) : ks \in KindSeqs(EntryKinds)}

\* the responses adapter a is run on: every body of its own kind and one of
\* the other kind
BodiesFor(a) ==
    IF a.dialect = "html"
    THEN ListBodies \cup {Body("rss2", <<"rfc2822">>)}
    ELSE FeedBodies \cup {Body("html", <<"ymd">>)}

NoBody == [dialect |-> "", items |-> <<>>]

InitFeed ==
    /\ site \in {a.name : a \in Listings}
    /\ \/ req = "ok" /\ feed \in BodiesFor(ListingNamed(site))
       \/ req = "send_error" /\ feed = NoBody
    /\ html = <<>>
    /\ extra = <<>>
    /\ primary = InvalidSel
    /\ pc = "start"
    /\ op = ""
    /\ out = <<>>
    /\ prev = <<>>
    /\ heuristic = FALSE
    /\ via = ""
    /\ elem = 0
    /\ articles = <<>>
    /\ queue = <<>>
    /\ failures = <<>>
    /\ extracted = {}
    /\ ProcessStart

GetArticles ==
    /\ pc = "start"
    /\ out' = get_articles(ListingNamed(site), req, feed)
    /\ op' = "get_articles"
    /\ pc' = "listed"
    /\ UNCHANGED <<feed, articles, queue, failures, extracted>>
    /\ UNCHANGED <<html, extra, primary, site, prev, heuristic, via, elem, req>>
    /\ UNCHANGED statics

NextFeed == GetArticles

SpecFeed == InitFeed /\ [][NextFeed]_vars

(***************************************************************************)
(* Claims about get_articles                                               *)
(***************************************************************************)
\* the date adapter a reads from item f is missing or not in a's format
BadDate(a, f) ==
    IF a.dialect = "html"
    THEN IF a.name = "Medium" THEN ~f.age.some
         ELSE ~f.date.some \/ ~parse_date(a.fmt, f.date.v).some
    ELSE ~f[a.field].some \/ ~parse_date(a.fmt, f[a.field].v).some

\* the response conforms to a's format and one of its items has a bad date
HasBadDate(a, body) ==
    /\ body.dialect = a.dialect
    /\ \E i \in DOMAIN body.items : BadDate(a, body.items[i])

\* C15: in every adapter's get_articles an item whose date is missing or
\* cannot be parsed in the adapter's format is reported as an Err result:
\* no article with a defaulted timestamp, no panic.
C15_BadDateIsError ==
    (pc = "listed" /\ req = "ok" /\ HasBadDate(ListingNamed(site), feed))
        => out.k = "err"

\* the entries of a list page a skipping adapter can use: title, link and a
\* date in the adapter's format
Usable(a, body) ==
    LET ok(e) == e.title.some /\ e.href.some /\ ~BadDate(a, e)
    IN  SelectSeq(body.items, ok)

\* the entries of a list page whose date parses
Dated(a, body) ==
    LET ok(e) == ~BadDate(a, e)
    IN  SelectSeq(body.items, ok)

\* the articles are the entries es, one for one and in that order
ArticlesAre(as, es) ==
    /\ Len(as) = Len(es)
    /\ \A i \in DOMAIN es :
          /\ es[i].title.some /\ as[i].title = es[i].title.v
          /\ es[i].href.some /\ as[i].article_url = es[i].href.v
          /\ as[i].timestamp = es[i].date.v.t

\* C16: under the fail policy (the adapters that collect per-item results)
\* one item with a missing or unparsable date makes get_articles return an
\* error and no articles; under the skip policy (StockmarkTechBlog,
\* Supership) get_articles returns Ok with exactly the entries that have a
\* title, a link and a date that parses, in their original order.
C16_FailOrSkip ==
    LET a == ListingNamed(site)
    IN  (pc = "listed" /\ req = "ok" /\ feed.dialect = a.dialect)
            => /\ (a.ondate = "try" /\ HasBadDate(a, feed)) => out.k = "err"
               /\ a.ondate = "skip"
                     => out.k = "ok" /\ ArticlesAre(out.articles, Usable(a, feed))

\* a skipping adapter was run on three entries, the second with a bad date
C16_Witness ==
    LET a == ListingNamed(site)
    IN  /\ pc = "listed" /\ req = "ok" /\ a.ondate = "skip"
        /\ Len(feed.items) = 3
        /\ BadDate(a, feed.items[2])
        /\ out.k = "ok" /\ Len(out.articles) = 2

\* C16 as stated: under the skip policy get_articles returns exactly the
\* items whose date parses
C16_SkipKeepsEveryDatedItem ==
    LET a == ListingNamed(site)
    IN  (pc = "listed" /\ req = "ok" /\ feed.dialect = a.dialect)
            => /\ (a.ondate = "try" /\ HasBadDate(a, feed)) => out.k = "err"
               /\ a.ondate = "skip"
                     => out.k = "ok" /\ ArticlesAre(out.articles, Dated(a, feed))

\* C17: get_articles of a feed adapter on a response body that does not
\* conform to the adapter's feed dialect returns an Err result and no
\* articles; it never panics.
C17_BadFeedIsError ==
    LET a == ListingNamed(site)
    IN  (pc = "listed" /\ req = "ok" /\ a.dialect # "html" /\ feed.dialect # a.dialect)
            => out.k = "err"

\* the text of a title: the inside of the CDATA section when the title is one
TitleText(raw) ==
    IF IsCData(raw)
    THEN SubSeq(raw, Len(CDataOpen) + 1, Len(raw) - Len(CDataClose))
    ELSE raw

\* the articles are the feed items fs of adapter a, one for one and in order
ArticlesOfItems(a, as, fs) ==
    /\ Len(as) = Len(fs)
    /\ \A i \in DOMAIN fs :
          /\ as[i].title = TitleText(fs[i].title)
          /\ as[i].article_url = fs[i].link
          /\ as[i].site = [name |-> a.site_name, url |-> a.url]

\* the items of the feed that adapter a's link filter admits
Admitted(a, body) ==
    LET ok(f) == \/ a.prefix = ""
                 \/ Len(f.link) >= Len(a.prefix)
                    /\ SubSeq(f.link, 1, Len(a.prefix)) = a.prefix
    IN  SelectSeq(body.items, ok)

\* C18: when get_articles of a feed adapter succeeds it returns exactly one
\* article per feed item (DeNAEngineeringBlog: per feed item whose link
\* starts with https://engineering.dena.com/blog), in feed order, each with
\* the title and link of its own item and the adapter's site name and URL.
C18_OneArticlePerAdmittedItem ==
    LET a == ListingNamed(site)
    IN  (pc = "listed" /\ a.dialect # "html" /\ out.k = "ok")
            => ArticlesOfItems(a, out.articles, Admitted(a, feed))

\* DeNAEngineeringBlog succeeded on three items, one of them from another site
C18_Witness ==
    /\ pc = "listed" /\ site = "DeNAEngineeringBlog" /\ out.k = "ok"
    /\ Len(feed.items) = 3
    /\ Len(out.articles) = 2
    /\ out.articles[2].title = "Post 3"

\* C18 as stated: one article per feed item, none dropped
C18_OneArticlePerItem ==
    LET a == ListingNamed(site)
    IN  (pc = "listed" /\ a.dialect # "html" /\ out.k = "ok")
            => ArticlesOfItems(a, out.articles, feed.items)

(***************************************************************************)
(* The callers of get_articles and parse_article: the two loops over the   *)
(* sites in src/src/models/mod.rs.  A visit is one site of the list with   *)
(* what the network answers: req and body for the listing request, preq    *)
(* and page for the request of the first article's page.                   *)
(***************************************************************************)
MaxSites == 3

Visit(name, r, body, preq, page) ==
    [site |-> name, req |-> r, body |-> body, preq |-> preq, page |-> page]

ContentPage(name, content) == PageFor(SiteNamed(name).selectors[1], content)

SiteVisits ==
    { Visit("Gigazine", "ok", Body("rss2", <<"rfc2822", "rfc2822">>),
            "ok", ContentPage("Gigazine", BodyWithBanner)),
      Visit("Gigazine", "ok", Body("rss2", <<"rfc2822", "nodate">>),
            "ok", ContentPage("Gigazine", BodyPlain)),
      Visit("AIZine", "ok", Body("rss2", <<"rfc2822", "baddate">>),
            "ok", ContentPage("AIZine", BodyPlain)),
      Visit("AIZine", "ok", Body("rss2", <<"rfc2822">>),
            "ok", Para("Sorry", 5)),
      Visit("RustBlog", "send_error", NoBody, "ok", <<>>),
      Visit("RustBlog", "ok", Body("atom", <<"rfc3339">>),
            "ok", ContentPage("RustBlog", BodyWithScript)),
      Visit("RustBlog", "ok", Body("atom", <<"rfc3339">>), "send_error", <<>>),
      Visit("AINews", "ok", Body("html", <<"ymd">>), "ok", <<>>),
      Visit("TechCrunch", "ok", Body("rss1", <<"rfc2822">>),
            "ok", ContentPage("TechCrunch", BodyPlain)),
      Visit("TechCrunch", "ok", Body("rss1", <<>>), "ok", <<>>),
      Visit("StockmarkTechBlog", "ok", Body("html", <<"ymd", "baddate", "ymd">>),
            "ok", ContentPage("StockmarkTechBlog", BodySpaced)),
      Visit("Supership", "ok", Body("html", <<"baddate", "dotted">>),
            "ok", ContentPage("Supership", BodyPlain)) }

SiteLists == UNION {[1..n -> SiteVisits] : n \in 1..MaxSites}

\* Url::parse(url) succeeds: the url is absolute
is_url(u) == StrContains(u, "://")

\* html.contains("<nav>"): the tag written without attributes
contains_tag(h, tag) ==
    \E i \in DOMAIN h :
        /\ h[i].k = "open" /\ h[i].tag = tag
        /\ h[i].class = <<>> /\ h[i].id = "" /\ h[i].attrs = <<>>

\* the assertions on a parsed article
assertions_hold(p) ==
    /\ ~contains_tag(p.html, "nav")
    /\ ~contains_tag(p.html, "script")
    /\ ~contains_tag(p.html, "aside")
    /\ p.html # <<>>
    /\ p.text # <<>>

Failure(name, r) == [site |-> name, e |-> r.e]

InitRun ==
    /\ feed \in SiteLists
    /\ queue = feed
    /\ op \in {"test_all_sites", "test_parse_article_clean_content"}
    /\ pc = "running"
    /\ articles = <<>>
    /\ failures = <<>>
    /\ extracted = {}
    /\ ProcessStart
    /\ site = ""
    /\ html = <<>>
    /\ extra = <<>>
    /\ primary = InvalidSel
    /\ out = <<>>
    /\ prev = <<>>
    /\ heuristic = FALSE
    /\ via = ""
    /\ elem = 0
    /\ req = "ok"

\* one turn of the loop of test_all_sites; behind the last turn the test
\* asserts that some article was collected
TestAllSites ==
    /\ pc = "running"
    /\ op = "test_all_sites"
    /\ queue # <<>>
    /\ LET v == Head(queue)
           r == get_articles(ListingNamed(v.site), v.req, v.body)
       IN  /\ out' = r
           /\ site' = v.site
           /\ IF r.k = "panic"
              THEN /\ pc' = "panicked"
                   /\ UNCHANGED <<queue, articles, failures>>
              ELSE /\ queue' = Tail(queue)
                   /\ articles' = IF r.k = "ok" THEN articles \o r.articles ELSE articles
                   /\ failures' = IF r.k = "err"
                                  THEN Append(failures, Failure(v.site, r))
                                  ELSE failures
                   /\ pc' = IF Tail(queue) # <<>> THEN "running"
                            ELSE IF articles' = <<>> THEN "panicked"
                            ELSE "done"
    /\ UNCHANGED <<feed, extracted, op>>
    /\ UNCHANGED <<html, extra, primary, prev, heuristic, via, elem, req>>
    /\ UNCHANGED statics

\* one turn of the loop of test_parse_article_clean_content: list the site,
\* parse its first article, check the result; articles holds every article
\* constructed so far
TestParseArticle ==
    /\ pc = "running"
    /\ op = "test_parse_article_clean_content"
    /\ queue # <<>>
    /\ \E v \in {Head(queue)} :
       \E r \in {get_articles(ListingNamed(v.site), v.req, v.body)} :
       \E listed \in {r.k = "ok" /\ r.articles # <<>>} :
       \E url \in {IF listed THEN r.articles[1].article_url ELSE ""} :
       \E p \in {IF listed
                 THEN parse_article(SiteNamed(v.site),
                                    IF is_url(url) THEN v.preq ELSE "bad_url", v.page)
                 ELSE r} :
       \E next \in {IF Tail(queue) # <<>> THEN "running" ELSE "done"} :
           /\ site' = v.site
           /\ out' = p
           /\ articles' = IF r.k = "ok" THEN articles \o r.articles ELSE articles
           /\ IF p.k = "panic"
              THEN pc' = "panicked" /\ UNCHANGED <<queue, failures, extracted>>
              ELSE IF p.k = "err"
              THEN /\ failures' = Append(failures, Failure(v.site, p))
                   /\ queue' = Tail(queue)
                   /\ pc' = next
                   /\ UNCHANGED extracted
              ELSE IF ~listed
              THEN /\ queue' = Tail(queue)
                   /\ pc' = next
                   /\ UNCHANGED <<failures, extracted>>
              ELSE IF ~assertions_hold(p)
              THEN pc' = "panicked" /\ UNCHANGED <<queue, failures, extracted>>
              ELSE /\ extracted' = extracted \cup {url}
                   /\ queue' = Tail(queue)
                   /\ pc' = next
                   /\ UNCHANGED failures
    /\ UNCHANGED <<feed, op>>
    /\ UNCHANGED <<html, extra, primary, prev, heuristic, via, elem, req>>
    /\ UNCHANGED statics

NextRun == TestAllSites \/ TestParseArticle

SpecRun == InitRun /\ [][NextRun]_vars

(***************************************************************************)
(* Claims about the articles and the callers                               *)
(***************************************************************************)
\* an article's content is non-empty only if its URL was extracted
ContentOnlyIfExtracted ==
    \A i \in DOMAIN articles :
        (articles[i].html # "" \/ articles[i].text # "")
            => articles[i].article_url \in extracted

\* a step leaves every article constructed before it as it was, and the
\* articles it constructs have empty html and text
ArticlesKept ==
    /\ Len(articles') >= Len(articles)
    /\ \A i \in DOMAIN articles : articles'[i] = articles[i]
    /\ \A i \in (Len(articles) + 1)..Len(articles') :
          articles'[i].html = "" /\ articles'[i].text = ""

\* C19: every article WebArticle::new produces has empty html and text; after
\* any sequence of get_articles and parse_article calls an article's html
\* and text are non-empty only if an extraction for its URL has succeeded;
\* no operation changes a field of an article already constructed.
C19_ContentEmptyUntilExtracted ==
    []ContentOnlyIfExtracted /\ [][ArticlesKept]_vars

\* an article's page was parsed with success and the article is as constructed
C19_Witness ==
    /\ extracted # {}
    /\ \E i \in DOMAIN articles :
          /\ articles[i].article_url \in extracted
          /\ articles[i].title # ""
          /\ articles[i].html = "" /\ articles[i].text = ""
    /\ Len(articles) >= 3

\* the result of get_articles for the i-th site of the list
Listed(i) == get_articles(ListingNamed(feed[i].site), feed[i].req, feed[i].body)

\* C20: when the sites are processed one after another, a failure of one
\* site's get_articles or of one article's parse_article does not abort the
\* processing of the others: when the caller stops, every site of the list
\* has been processed, the articles of the sites that succeeded are
\* collected and the failures are reported.
C20_FailuresIsolated ==
    pc # "running"
        => /\ queue = <<>>
           /\ \A i \in DOMAIN feed :
                 /\ Listed(i).k = "ok"
                       => \A j \in DOMAIN Listed(i).articles :
                             \E k \in DOMAIN articles : articles[k] = Listed(i).articles[j]
                 /\ Listed(i).k = "err"
                       => \E k \in DOMAIN failures : failures[k].site = feed[i].site

(***************************************************************************)
(* shared_client and WebSiteInterface::request under concurrent callers    *)
(*                                                                         *)
(* A task is one call of request.  A task moves at the points where the    *)
(* OnceLock orders it against the others: entering get_or_init, finishing  *)
(* the initialization closure, sending.                                    *)
(***************************************************************************)
MaxTasks == 3

Tasks == 1..MaxTasks

\* the client the closure of shared_client builds; id tells one build's
\* instance from another's
Client(id) ==
    [id |-> id,
     default_headers |-> {<<"user-agent", "CARGO_PKG_NAME/CARGO_PKG_VERSION">>},
     timeout |-> 60,
     pool_max_idle_per_host |-> 10,
     tcp_keepalive |-> 30,
     gzip |-> TRUE, brotli |-> TRUE, deflate |-> TRUE]

\* a cell that lets a second caller initialize while the first still does
get_or_init_Racy(state) == IF state = "complete" THEN "get" ELSE "init"

\* OnceLock::get_or_init: what a caller that finds the cell in this state
\* does: read the value, run the closure, or block until the closure that
\* is running has ended
get_or_init(state) ==
    CASE state = "complete" -> "get"
      [] state = "incomplete" -> "init"
      [] OTHER -> "wait"

IdleTask == [pc |-> "idle", cookie |-> "", level |-> "", client |-> <<>>,
             headers |-> {}, result |-> ""]

Cookies == {"", "session=1"}

InitClient ==
    /\ html = <<>>
    /\ extra = <<>>
    /\ primary = InvalidSel
    /\ site = ""
    /\ pc = "running"
    /\ op = "request"
    /\ out = <<>>
    /\ prev = <<>>
    /\ heuristic = FALSE
    /\ via = ""
    /\ elem = 0
    /\ req = "ok"
    /\ feed = <<>>
    /\ articles = <<>>
    /\ queue = <<>>
    /\ failures = <<>>
    /\ extracted = {}
    /\ HTTP_CLIENT = [state |-> "incomplete", value |-> <<>>]
    /\ INIT = "incomplete"
    /\ subscriber = <<>>
    /\ tasks = [t \in Tasks |-> IdleTask]
    /\ closures = <<>>

\* request is called: Url::parse(url).unwrap() panics on a url that does
\* not parse
Request(t) ==
    /\ tasks[t].pc = "idle"
    /\ \E url_ok \in BOOLEAN, cookie_str \in Cookies :
           tasks' = [tasks EXCEPT ![t] =
                        [@ EXCEPT !.pc = IF url_ok THEN "shared_client" ELSE "panicked",
                                  !.cookie = cookie_str]]
    /\ UNCHANGED <<HTTP_CLIENT, INIT, subscriber, closures>>
    /\ UNCHANGED <<html, extra, primary, site, pc, op, out, prev, heuristic, via, elem, req>>
    /\ UNCHANGED <<feed, articles, queue, failures, extracted>>

\* shared_client(): HTTP_CLIENT.get_or_init enters; a caller that must wait
\* takes no step
SharedClient(t) ==
    /\ tasks[t].pc = "shared_client"
    /\ get_or_init(HTTP_CLIENT.state) # "wait"
    /\ IF get_or_init(HTTP_CLIENT.state) = "get"
       THEN /\ tasks' = [tasks EXCEPT ![t] =
                            [@ EXCEPT !.pc = "get", !.client = HTTP_CLIENT.value]]
            /\ UNCHANGED HTTP_CLIENT
       ELSE /\ tasks' = [tasks EXCEPT ![t] = [@ EXCEPT !.pc = "build"]]
            /\ HTTP_CLIENT' = [HTTP_CLIENT EXCEPT !.state = "running"]
    /\ UNCHANGED <<INIT, subscriber, closures>>
    /\ UNCHANGED <<html, extra, primary, site, pc, op, out, prev, heuristic, via, elem, req>>
    /\ UNCHANGED <<feed, articles, queue, failures, extracted>>

\* the closure ends: build() gave a client, which the cell stores, or it
\* failed and expect panics, which leaves the cell uninitialized
Build(t) ==
    /\ tasks[t].pc = "build"
    /\ \E built \in BOOLEAN :
           /\ closures' = Append(closures, [task |-> t, ok |-> built])
           /\ IF built
              THEN /\ HTTP_CLIENT' = [state |-> "complete",
                                      value |-> Client(Len(closures) + 1)]
                   /\ tasks' = [tasks EXCEPT ![t] =
                                   [@ EXCEPT !.pc = "get",
                                             !.client = Client(Len(closures) + 1)]]
              ELSE /\ HTTP_CLIENT' = [state |-> "incomplete", value |-> <<>>]
                   /\ tasks' = [tasks EXCEPT ![t] = [@ EXCEPT !.pc = "panicked"]]
    /\ UNCHANGED <<INIT, subscriber>>
    /\ UNCHANGED <<html, extra, primary, site, pc, op, out, prev, heuristic, via, elem, req>>
    /\ UNCHANGED <<feed, articles, queue, failures, extracted>>

\* .get(url), the cookie header on the request when a cookie is given,
\* send().await: Ok(response) or Err(RequestError)
Send(t) ==
    /\ tasks[t].pc = "get"
    /\ \E sent \in BOOLEAN :
           tasks' = [tasks EXCEPT ![t] =
                        [@ EXCEPT !.pc = "done",
                                  !.headers =
                                      tasks[t].client.default_headers
                                      \cup (IF tasks[t].cookie = "" THEN {}
                                            ELSE {<<"cookie", tasks[t].cookie>>}),
                                  !.result = IF sent THEN "Ok" ELSE "RequestError"]]
    /\ UNCHANGED <<HTTP_CLIENT, INIT, subscriber, closures>>
    /\ UNCHANGED <<html, extra, primary, site, pc, op, out, prev, heuristic, via, elem, req>>
    /\ UNCHANGED <<feed, articles, queue, failures, extracted>>

NextClient == \E t \in Tasks : Request(t) \/ SharedClient(t) \/ Build(t) \/ Send(t)

SpecClient == InitClient /\ [][NextClient]_vars

(***************************************************************************)
(* Claims about the shared client                                          *)
(***************************************************************************)
Builds == {i \in DOMAIN closures : closures[i].ok}

\* at most one build has given a client, and every call that is behind
\* shared_client holds that one client, configured as the closure wrote it
OneClient ==
    /\ Cardinality(Builds) <= 1
    /\ \A t \in DOMAIN tasks :
           tasks[t].pc \in {"get", "done"} =>
               /\ Cardinality(Builds) = 1
               /\ HTTP_CLIENT.state = "complete"
               /\ tasks[t].client = HTTP_CLIENT.value
               /\ tasks[t].client = Client(tasks[t].client.id)

\* the initialized cell is never written again
ClientFrozen == HTTP_CLIENT.state = "complete" => HTTP_CLIENT' = HTTP_CLIENT

\* C21: under any interleaving of concurrent request calls the shared client
\* is built once, every call uses that one instance, and the client (60 s
\* timeout, default headers, pool settings) is never modified once the cell
\* is initialized.
C21_ClientBuiltOnce == []OneClient /\ [][ClientFrozen]_vars

\* two calls with different cookies have both been sent on the one client,
\* the second having found the cell initialized
C21_Witness ==
    /\ Cardinality(Builds) = 1
    /\ \E t, u \in DOMAIN tasks :
           /\ tasks[t].pc = "done" /\ tasks[u].pc = "done"
           /\ tasks[t].cookie = "" /\ tasks[u].cookie # ""
           /\ closures[Len(closures)].task = t
           /\ <<"cookie", tasks[u].cookie>> \in tasks[u].headers
           /\ tasks[u].client.id = tasks[t].client.id

(***************************************************************************)
(* init_logger under sequential and concurrent callers                     *)
(***************************************************************************)
\* the names the assertion of init_logger admits
Levels == {"OFF", "ERROR", "WARN", "INFO", "DEBUG", "TRACE"}

\* the names the callers pass: those of the tests, one more that is valid
\* and one the assertion rejects
LevelNames == {"DEBUG", "INFO", "OFF", "VERBOSE"}

\* str::parse::<LevelFilter>() succeeds
parse_LevelFilter(name) == name \in Levels

\* a Once that lets a second caller run the closure while the first still does
call_once_Racy(state) ==
    CASE state = "complete" -> "return"
      [] state = "poisoned" -> "panic"
      [] OTHER -> "run"

\* Once::call_once: what a caller that finds the Once in this state does:
\* return at once, run the closure, block until the running closure has
\* ended, or panic because an earlier closure panicked
call_once(state) ==
    CASE state = "complete" -> "return"
      [] state = "incomplete" -> "run"
      [] state = "poisoned" -> "panic"
      [] OTHER -> "wait"

InitLoggers ==
    /\ html = <<>>
    /\ extra = <<>>
    /\ primary = InvalidSel
    /\ site = ""
    /\ pc = "running"
    /\ op = "init_logger"
    /\ out = <<>>
    /\ prev = <<>>
    /\ heuristic = FALSE
    /\ via = ""
    /\ elem = 0
    /\ req = "ok"
    /\ feed = <<>>
    /\ articles = <<>>
    /\ queue = <<>>
    /\ failures = <<>>
    /\ extracted = {}
    /\ HTTP_CLIENT = [state |-> "incomplete", value |-> <<>>]
    /\ INIT = "incomplete"
    /\ subscriber = <<>>
    /\ tasks = [t \in Tasks |-> IdleTask]
    /\ closures = <<>>

\* init_logger is called: the assertion on the level name, then
\* init_result = Ok(())
InitLogger(t) ==
    /\ tasks[t].pc = "idle"
    /\ \E log_level \in LevelNames :
           tasks' = [tasks EXCEPT ![t] =
                        IF log_level \in Levels
                        THEN [@ EXCEPT !.pc = "call_once", !.level = log_level,
                                       !.result = "Ok"]
                        ELSE [@ EXCEPT !.pc = "panicked", !.level = log_level]]
    /\ UNCHANGED <<HTTP_CLIENT, INIT, subscriber, closures>>
    /\ UNCHANGED <<html, extra, primary, site, pc, op, out, prev, heuristic, via, elem, req>>
    /\ UNCHANGED <<feed, articles, queue, failures, extracted>>

\* INIT.call_once enters; a caller that does not run the closure returns
\* its init_result; a caller that must wait takes no step
CallOnce(t) ==
    /\ tasks[t].pc = "call_once"
    /\ call_once(INIT) # "wait"
    /\ tasks' = [tasks EXCEPT ![t] =
                    [@ EXCEPT !.pc = CASE call_once(INIT) = "return" -> "done"
                                       [] call_once(INIT) = "run" -> "closure"
                                       [] OTHER -> "panicked"]]
    /\ INIT' = IF call_once(INIT) = "run" THEN "running" ELSE INIT
    /\ UNCHANGED <<HTTP_CLIENT, subscriber, closures>>
    /\ UNCHANGED <<html, extra, primary, site, pc, op, out, prev, heuristic, via, elem, req>>
    /\ UNCHANGED <<feed, articles, queue, failures, extracted>>

\* the closure: parse the level, build the filter and the layer, try_init,
\* which fails when a global default subscriber is installed already; the
\* closure returns on every path, so the Once completes
Closure(t) ==
    /\ tasks[t].pc = "closure"
    /\ LET installs == parse_LevelFilter(tasks[t].level) /\ subscriber = <<>>
       IN  /\ subscriber' = IF installs THEN [level |-> tasks[t].level] ELSE subscriber
           /\ tasks' = [tasks EXCEPT ![t] =
                           [@ EXCEPT !.pc = "done",
                                     !.result = IF installs THEN "Ok" ELSE "Err"]]
           /\ closures' = Append(closures, [task |-> t, level |-> tasks[t].level,
                                            ok |-> installs])
    /\ INIT' = "complete"
    /\ UNCHANGED HTTP_CLIENT
    /\ UNCHANGED <<html, extra, primary, site, pc, op, out, prev, heuristic, via, elem, req>>
    /\ UNCHANGED <<feed, articles, queue, failures, extracted>>

NextLoggers == \E t \in Tasks : InitLogger(t) \/ CallOnce(t) \/ Closure(t)

SpecLoggers == InitLoggers /\ [][NextLoggers]_vars

(***************************************************************************)
(* Claims about init_logger                                                *)
(***************************************************************************)
\* the closure has run at most once, with its caller's level, which is the
\* installed one; no call with a valid level has panicked, and a call that
\* returned without running the closure returned Ok after the closure ended
InstalledOnce ==
    /\ Len(closures) <= 1
    /\ closures # <<>> =>
           /\ closures[1].level = tasks[closures[1].task].level
           /\ subscriber = [level |-> closures[1].level]
    /\ closures = <<>> => subscriber = <<>>
    /\ \A t \in DOMAIN tasks :
           tasks[t].level \in Levels =>
               /\ tasks[t].pc # "panicked"
               /\ (tasks[t].pc = "done" /\ (closures = <<>> \/ closures[1].task # t)) =>
                      /\ tasks[t].result = "Ok"
                      /\ INIT = "complete"
                      /\ closures # <<>>

\* an installed subscriber is never replaced
SubscriberFrozen == subscriber # <<>> => subscriber' = subscriber

\* C28: init_logger may be called any number of times with valid level
\* names, one call after another or concurrently: the installation closure
\* runs at most once, on the first call and with that call's level, and no
\* later call returns an error, panics or changes the installed level.
C28_LoggerInstalledOnce == []InstalledOnce /\ [][SubscriberFrozen]_vars

\* a call with another level has returned behind the call that installed
C28_Witness ==
    \E t, u \in DOMAIN tasks :
        /\ closures # <<>> /\ closures[1].task = t
        /\ tasks[t].pc = "done" /\ tasks[u].pc = "done"
        /\ tasks[u].level \in Levels /\ tasks[u].level # tasks[t].level
        /\ tasks[u].result = "Ok"
        /\ subscriber = [level |-> tasks[t].level]

(***************************************************************************)
(* The removal steps of clean_html_with_selectors, on documents with       *)
(* nested, repeated and non-canonically spelled elements and with runs of  *)
(* blank lines, and with extra selector lists of more than one selector    *)
(***************************************************************************)
RemovalBlocks ==
    << ElRaw("div", <<"box">>, "", <<Text("Note", 4, 1)>>),
       ElA("div", <<"box">>, "", El("p", <<Text("Content", 7, 1)>>)),
       El("p", <<Text("Content", 7, 1)>>),
       ElRaw("nav", <<"main-nav">>, "", El("script", <<Text("alert", 5, 1)>>)),
       El("nav", El("script", <<Text("alert", 5, 1)>>)),
       ElA("div", <<"q">>, "", El("i", <<Text("a", 1, 1)>>)),
       El("i", <<Text("a", 1, 1)>> \o El("b", <<Text("x", 1, 1)>>)),
       <<Text("One", 3, 1), NL, NL>>,
       <<NL, SP, NL, Text("Two", 3, 1)>>,
       <<NL>> >>

\* ".q i"
QuoteItalicSel == Sel(<<<<Cmp("", {"q"}, ""), Cmp("i", {}, "")>>>>)

RemovalExtras ==
    { <<>>, <<ClassSel("box")>>, <<BoxParagraphSel>>, <<QuoteItalicSel, TagSel("b")>>,
      <<InvalidSel>> }

\* the lists that hold the same selectors as S, in any order, one of them
\* possibly twice
Reorderings(S) ==
    {T \in UNION {[1..n -> Range(S)] : n \in Len(S)..(Len(S) + 1)} : Range(T) = Range(S)}

InitRemoval ==
    /\ html \in DocsOf(RemovalBlocks)
    /\ extra \in RemovalExtras
    /\ primary = InvalidSel
    /\ site = ""
    /\ pc = "start"
    /\ op = ""
    /\ feed = <<>>
    /\ articles = <<>>
    /\ queue = <<>>
    /\ failures = <<>>
    /\ extracted = {}
    /\ ProcessStart
    /\ out = <<>>
    /\ prev = <<>>
    /\ heuristic = FALSE
    /\ via = ""
    /\ elem = 0
    /\ req = "ok"

\* the caller cleans the same input again with the selectors of its list
\* in another order or with one of them repeated
CleanReordered ==
    /\ pc = "cleaned"
    /\ op = "clean_html_with_selectors"
    /\ extra # <<>>
    /\ \E T \in Reorderings(extra) :
           /\ T # extra
           /\ out' = clean_html_with_selectors(html, T)
    /\ prev' = out
    /\ pc' = "reordered"
    /\ UNCHANGED <<feed, articles, queue, failures, extracted>>
    /\ UNCHANGED <<html, extra, primary, site, op, heuristic, via, elem, req>>
    /\ UNCHANGED statics

NextRemoval == CleanHtml \/ CleanHtmlWithSelectors \/ CleanReordered

SpecRemoval == InitRemoval /\ [][NextRemoval]_vars

(***************************************************************************)
(* Claims about the removal steps                                          *)
(***************************************************************************)
\* the selectors a call of Clean walks through
UsedSelectors == EXCLUDE_SELECTORS \o UsedExtras

\* the working document behind the first k removals, for every k
Working(h, sorted) ==
    [k \in 0..Len(sorted) |-> RemoveAll(h, SubSeq(sorted, 1, k))]

\* the text of element i as the source spells it (the documents of this
\* section write no <html>, <head> or <body> tags, which the parser adds
\* as its first four tokens)
SourceSpan(h, doc, i) == SubSeq(h, i - 4, doc.end[i] - 4)

MatchedByBase(doc, i) ==
    \E x \in DOMAIN EXCLUDE_SELECTORS : Matches(doc, i, EXCLUDE_SELECTORS[x])

MatchedByExtras(doc, i, extras) ==
    \E x \in DOMAIN extras : extras[x].ok /\ Matches(doc, i, extras[x])

\* C22: the removal set of clean_html_with_selectors(html, S) is exactly
\* the set of distinct serialized fragments of the elements a base selector
\* or a selector of S matches, each collected once; hence an element that
\* only a selector of S matches is removed too; and clean_html(html) is
\* clean_html_with_selectors(html, []).
C22_RemovalSetIsUnion ==
    pc = "cleaned" =>
        LET doc == ParseDocument(html)
            collected == CollectFragments(doc, UsedSelectors)
        IN  /\ Range(collected) =
                   {ElemHtml(doc, i) : i \in {e \in Elements(doc) : IsExcluded(doc, e, UsedExtras)}}
            /\ Cardinality(Range(collected)) = Len(collected)
            /\ \A i \in Elements(doc) :
                   (MatchedByExtras(doc, i, UsedExtras) /\ ~MatchedByBase(doc, i)) =>
                       ~StrContains(out, SourceSpan(html, doc, i))
            /\ op = "clean_html" => out = clean_html_with_selectors(html, <<>>)

\* where f occurs in s
Occurrences(s, f) ==
    {p \in 1..(Len(s) - Len(f) + 1) : SubSeq(s, p, p + Len(f) - 1) = f}

\* s without the positions any occurrence of f covers
EraseAll(s, f) ==
    LET free(p) == \A q \in Occurrences(s, f) : p < q \/ p >= q + Len(f)
        at == SelectSeq([p \in DOMAIN s |-> p], free)
    IN  [x \in DOMAIN at |-> s[at[x]]]

\* the elements no rule matches whose serialization a matched element
\* shares, the source spelling them as the serializer does
Bystanders(h, doc, collected) ==
    {j \in Elements(doc) :
        /\ ElemHtml(doc, j) \in Range(collected)
        /\ SourceSpan(h, doc, j) = ElemHtml(doc, j)
        /\ ~IsExcluded(doc, j, UsedExtras)}

TurnOf(sorted, f) == CHOOSE k \in DOMAIN sorted : sorted[k] = f

\* the source text of element i with the source text of its descendant j
\* taken out: the outer tags left around a removed inner element
PartlyRemoved(h, doc, i, j) ==
    SubSeq(h, i - 4, j - 5) \o SubSeq(h, doc.end[j] - 3, doc.end[i] - 4)

\* C24: the fragments are erased in non-increasing order of serialized
\* length, so the fragment of an excluded element is erased before the
\* fragment of an excluded element nested in it is considered, and the
\* output holds no outer element with only its inner element removed.
C24_OuterBeforeInner ==
    pc = "cleaned" =>
        LET doc == ParseDocument(html)
            sorted == SortByLenDesc(CollectFragments(doc, UsedSelectors))
            excluded == {e \in Elements(doc) : IsExcluded(doc, e, UsedExtras)}
        IN  /\ \A k \in 1..(Len(sorted) - 1) : StrBytes(sorted[k]) >= StrBytes(sorted[k + 1])
            /\ \A i \in excluded : \A j \in excluded \cap Descendants(doc, i) :
                   /\ TurnOf(sorted, ElemHtml(doc, i)) < TurnOf(sorted, ElemHtml(doc, j))
                   /\ ~StrContains(out, PartlyRemoved(html, doc, i, j))

\* the maximal runs of whitespace of s, each as <<first, last>>
WhitespaceRuns(s) ==
    {r \in (DOMAIN s) \X (DOMAIN s) :
        /\ r[1] <= r[2]
        /\ \A p \in r[1]..r[2] : IsSpace(s[p])
        /\ r[1] = 1 \/ ~IsSpace(s[r[1] - 1])
        /\ r[2] = Len(s) \/ ~IsSpace(s[r[2] + 1])}

NewlinesIn(s, r) == {p \in r[1]..r[2] : s[p].k = "nl"}

\* the pieces joined, halving the list
RECURSIVE Flatten(_)
Flatten(pieces) ==
    IF Len(pieces) = 0 THEN <<>>
    ELSE IF Len(pieces) = 1 THEN pieces[1]
    ELSE LET m == Len(pieces) \div 2
         IN  Flatten(SubSeq(pieces, 1, m)) \o Flatten(SubSeq(pieces, m + 1, Len(pieces)))

\* s with every whitespace run of n or more newlines rewritten: the stretch
\* from its first newline to its last becomes two newlines, which is one
\* blank line; everything else is kept
RewriteRuns(s, n) ==
    LET long == {r \in WhitespaceRuns(s) : Cardinality(NewlinesIn(s, r)) >= n}
        firsts == {Least(NewlinesIn(s, r)) : r \in long}
        dropped == UNION {{p \in NewlinesIn(s, r) : p > Least(NewlinesIn(s, r))}
                          \cup {p \in r[1]..r[2] :
                                   /\ p > Least(NewlinesIn(s, r))
                                   /\ \E q \in NewlinesIn(s, r) : q > p} : r \in long}
    IN  Flatten([p \in DOMAIN s |->
                    IF p \in firsts THEN <<NL, NL>>
                    ELSE IF p \in dropped THEN <<>>
                    ELSE <<s[p]>>])

\* the working document the final pass receives
Cleaned == RemoveAll(html, SortByLenDesc(CollectFragments(ParseDocument(html), UsedSelectors)))

\* C25 as amended: the final pass rewrites exactly the whitespace runs that
\* hold 3 or more newlines, that is 2 or more consecutive blank lines: the
\* stretch from the first newline of the run to its last becomes two
\* newlines, a single blank line; runs with fewer than 3 newlines are left
\* as they are, and the output holds no whitespace run of 3 or more newlines.
C25_TwoBlankLinesCollapse ==
    pc = "cleaned" =>
        /\ out = RewriteRuns(Cleaned, 3)
        /\ \A r \in WhitespaceRuns(out) : Cardinality(NewlinesIn(out, r)) < 3

\* a run of exactly three newlines, two blank lines, has been rewritten
C25_Witness ==
    /\ pc = "cleaned"
    /\ \E r \in WhitespaceRuns(Cleaned) : Cardinality(NewlinesIn(Cleaned, r)) = 3
    /\ \E p \in DOMAIN Cleaned : Cleaned[p].k = "text"
    /\ out # Cleaned
    /\ Len(out) = Len(Cleaned) - 1

\* C25: the final pass rewrites exactly the runs of 3 or more consecutive
\* blank lines (4 or more newlines), each to a single blank line; runs of
\* fewer than 3 blank lines are left as they are, and the output holds no
\* run of 3 or more blank lines.
C25_ThreeBlankLinesCollapse ==
    pc = "cleaned" =>
        /\ out = RewriteRuns(Cleaned, 4)
        /\ \A r \in WhitespaceRuns(out) : Cardinality(NewlinesIn(out, r)) < 4

\* C26: a selector string that does not parse, given as an extra exclusion
\* of Clean or as the primary selector of extract_content_with_fallback, is
\* reported as a selector error; the operation never goes on as if the
\* selector had not been given.
C26_InvalidSelectorReported ==
    /\ (pc = "cleaned" /\ \E x \in DOMAIN UsedExtras : ~UsedExtras[x].ok) =>
           out = Err("SelectorError")
    /\ (pc = "extracted" /\ op = "extract_content_with_fallback" /\ ~primary.ok) =>
           out = Err("SelectorError")

\* no element of the document is matched by a base or an extra selector
NothingMatched ==
    LET doc == ParseDocument(html)
    IN  \A e \in Elements(doc) : ~IsExcluded(doc, e, UsedExtras)

HasRawSpelling(h) == \E i \in DOMAIN h : h[i].k = "open" /\ h[i].raw

\* C29: Clean works on the input string and only deletes from it: the
\* output is never longer than the input, and when no element matches a
\* base or extra exclusion selector and the input has no three newlines
\* separated only by whitespace, the output is the input, byte for byte.
C29_CleanOnlyDeletes ==
    pc = "cleaned" =>
        /\ StrBytes(out) <= StrBytes(html)
        /\ IsSubsequence(out, html)
        /\ (NothingMatched
            /\ \A r \in WhitespaceRuns(html) : Cardinality(NewlinesIn(html, r)) < 3) =>
               out = html

\* a document with an element the serializer would spell differently and
\* with a blank line has come back as it was
C29_Witness ==
    /\ pc = "cleaned"
    /\ HasRawSpelling(html)
    /\ \E r \in WhitespaceRuns(html) : Cardinality(NewlinesIn(html, r)) = 2
    /\ NothingMatched
    /\ out = html

\* C30: the result of clean_html_with_selectors(html, S) depends neither on
\* the order of the selectors in S nor on a selector being listed twice.
C30_SelectorOrderIrrelevant == pc = "reordered" => out = prev

====
